---- MODULE Spec2Model ----
(***************************************************************************)
(* A model of the LeapOCR JavaScript SDK's orchestration core:             *)
(*   utils/retry.ts    isRetriableError, getRetryDelay, withRetry          *)
(*   utils/polling.ts  pollUntil                                           *)
(*   client.ts         the constructor, the response interceptor, mapError *)
(*   services/ocr.ts   waitUntilDone, processFileBuffer, uploadParts,      *)
(*                     processBatch, mapJobStatus                          *)
(*   utils/validation.ts  validateBuffer                                   *)
(* Seven specifications share the variables:                               *)
(*   Spec       one call of withRetry (directly, or by a service method    *)
(*              through the client's HTTP transport)                       *)
(*   SpecFn     one application of a pure function to drawn arguments      *)
(*   SpecPoll   one call of pollUntil                                      *)
(*   SpecWait   one call of OCRService.waitUntilDone                       *)
(*   SpecUpload one call of OCRService.processFileBuffer                   *)
(*   SpecBatch  one call of OCRService.processBatch                        *)
(*   SpecClient the LeapOCR clients of one process and their requests      *)
(***************************************************************************)
EXTENDS Integers, Sequences, FiniteSets, TLC

VARIABLES
    \* ---- withRetry (utils/retry.ts) ----
    opts,        \* the merged RetryOptions of the call
    viaClient,   \* TRUE: the operation is a service call through the client's transport
    attempt,     \* the loop variable of withRetry
    lastError,   \* withRetry's lastError
    rawError,    \* the transport's rejection before the response interceptor
    rpc,         \* position of withRetry: "loop", "await", "sleep", "returned", "thrown"
    opCalls,     \* number of invocations of operation()
    delay,       \* the delay handed to setTimeout, <<>> before the first sleep
    sleeps,      \* number of setTimeout sleeps started
    retryLog,    \* the onRetry calls made: <<[attempt, errId, atCalls, atSleeps]>>
    outcome,     \* <<>> while running, else <<value>> or <<error>>
    \* ---- pure functions ----
    fnName,      \* the function applied
    fnArgs,      \* its arguments
    fnRet,       \* <<>> before the application, <<result>> after
    \* ---- pollUntil (utils/polling.ts) ----
    popts,       \* the merged PollOptions: pollInterval, maxWait, onProgress, signal
    condition,   \* the set of values the predicate accepts
    now,         \* Date.now(), in ms since pollUntil was called
    aborted,     \* opts.signal.aborted
    ppc,         \* position of pollUntil: "top", "await", "sleep", "returned", "thrown"
    pollCalls,   \* number of invocations of operation()
    callAt,      \* Date.now() when the latest operation() call started
    abortInfo,   \* <<>> until the signal aborts, then <<[calls, at]>>: the state then
    value,       \* the loop's `value`: <<>> before the first, else <<[value, id]>>
    progressLog, \* the values handed to onProgress, in order
    pollSleeps,  \* number of setTimeout sleeps started
    wakeAt,      \* earliest time the pending timer fires
    poutcome,    \* <<>> while running, else <<[kind, ...]>>
    \* ---- OCRService.waitUntilDone (services/ocr.ts) ----
    wopts,       \* the PollOptions the caller passed
    errMessage,  \* the message of the error the status fetch threw, <<>> if none
    woutcome,    \* <<>> while running, else <<[kind, ...]>>: how waitUntilDone settled
    \* ---- OCRService.processFileBuffer and uploadParts (services/ocr.ts) ----
    ubuf,          \* buffer.length
    ufile,         \* the extension of fileName as written, "" when it has none
    initiateCalls, \* number of directUpload requests issued
    uresp,         \* the response of the initiate call: [job_id, parts, upload_type]
    upc,           \* "idle", "initiate", "put", "complete", "returned", "thrown"
    upIdx,         \* position in validParts of the part whose PUT is in flight
    putLog,        \* the PUTs issued, in order: [url, part_number, from, to]
    putResponses,  \* the responses of the PUTs, in order
    uploadedParts, \* uploadParts' result list: [part_number, etag]
    completeLog,   \* the part lists handed to completeDirectUpload, one per call
    cAttempt,      \* withRetry's attempt around completeDirectUpload
    uoutcome,      \* <<>> while running, else <<[kind, ...]>>
    \* ---- OCRService.processBatch (services/ocr.ts) ----
    bfiles,      \* files.length; the files are 1..bfiles in input order
    bconc,       \* options.concurrency: <<>> when absent, else <<number>>
    bi,          \* the loop variable i
    bpc,         \* "idle", "called", "await", "returned"
    bround,      \* number of loop iterations started
    bstate,      \* per file: "new", "inflight", "fulfilled", "rejected"
    bgroup,      \* per file: the iteration that submitted it, 0 if none
    bsubmits,    \* per file: how often its upload was started
    bresults,    \* the results array: the files whose upload fulfilled
    boutcome,    \* <<>> while running, else <<[jobs, totalFiles]>>
    \* ---- LeapOCR clients and the shared AXIOS_INSTANCE (client.ts) ----
    axDefaults,     \* AXIOS_INSTANCE.defaults: [baseURL, timeout, apiKey]
    axInterceptors, \* number of response interceptors installed on AXIOS_INSTANCE
    clients,        \* the clients constructed, in order: [apiKey, baseURL, timeout]
    ctorThrows,     \* number of constructor calls that threw
    inflight,       \* <<>> or <<[client, baseURL, timeout, apiKey, chain]>>: a request sent
    observed        \* <<>> or <<[client, kind, raw, error]>>: what the last request's caller got

retryVars == <<opts, viaClient, attempt, lastError, rawError, rpc, opCalls, delay,
               sleeps, retryLog, outcome>>
fnVars == <<fnName, fnArgs, fnRet>>
pollVars == <<popts, condition, now, aborted, ppc, pollCalls, callAt, abortInfo, value,
              progressLog, pollSleeps, wakeAt, poutcome>>
waitVars == <<wopts, errMessage, woutcome>>
uploadVars == <<ubuf, ufile, initiateCalls, uresp, upc, upIdx, putLog, putResponses, uploadedParts,
                completeLog, cAttempt, uoutcome>>
batchVars == <<bfiles, bconc, bi, bpc, bround, bstate, bgroup, bsubmits, bresults,
               boutcome>>
clientVars == <<axDefaults, axInterceptors, clients, ctorThrows, inflight, observed>>
vars == <<retryVars, fnVars, pollVars, waitVars, uploadVars, batchVars, clientVars>>

-----------------------------------------------------------------------------
(* Bounds of the model *)

\* largest maxRetries drawn
MaxRetriesBound == 3
\* Math.random() is drawn from {0/J, 1/J, ..., (J-1)/J}
JitterSteps == 4
\* largest attempt index handed to getRetryDelay on its own
MaxAttemptIndex == 10

-----------------------------------------------------------------------------
(* Errors.  An error object is a record:                                    *)
(*   cls        its class: "AxiosError", an SDKError subclass, or "Error"   *)
(*   status     error.response?.status, 0 when there is no response/status  *)
(*   code       error.code                                                  *)
(*   hdr        error.response?.headers["retry-after"]: <<>> when absent,   *)
(*              <<s>> when present, s a sequence of characters              *)
(*   statusCode SDKError.statusCode, 0 when undefined                       *)
(*   retryAfter RateLimitError.retryAfter: <<>> undefined, else <<number>>  *)
(*   id         object identity: the invocation that created it             *)

NaN == [nan |-> TRUE, val |-> 0]

Num(n) == [nan |-> FALSE, val |-> n]

AxiosErr(status, code, hdr, id) ==
    [cls |-> "AxiosError", status |-> status, code |-> code, hdr |-> hdr,
     statusCode |-> 0, retryAfter |-> <<>>, id |-> id]

SDKErr(cls, code, statusCode, retryAfter, id) ==
    [cls |-> cls, status |-> 0, code |-> code, hdr |-> <<>>,
     statusCode |-> statusCode, retryAfter |-> retryAfter, id |-> id]

PlainErr(id) ==
    [cls |-> "Error", status |-> 0, code |-> "", hdr |-> <<>>,
     statusCode |-> 0, retryAfter |-> <<>>, id |-> id]

NoError == [cls |-> "undefined", status |-> 0, code |-> "", hdr |-> <<>>,
            statusCode |-> 0, retryAfter |-> <<>>, id |-> 0]

-----------------------------------------------------------------------------
(* parseInt(s, 10): leading white space is skipped, an optional sign is     *)
(* read, then the longest prefix of decimal digits; NaN when there is none. *)

DigitChars == <<"0", "1", "2", "3", "4", "5", "6", "7", "8", "9">>

IsDigit(c) == \E i \in 1..10 : DigitChars[i] = c

DigitVal(c) == (CHOOSE i \in 1..10 : DigitChars[i] = c) - 1

RECURSIVE SkipSpace(_)
SkipSpace(s) == IF s # <<>> /\ Head(s) = " " THEN SkipSpace(Tail(s)) ELSE s

RECURSIVE ReadDigits(_, _)
ReadDigits(s, acc) ==
    IF s # <<>> /\ IsDigit(Head(s))
    THEN ReadDigits(Tail(s), 10 * acc + DigitVal(Head(s)))
    ELSE acc

ParseInt(str) ==
    LET s == SkipSpace(str)
        neg == s # <<>> /\ Head(s) = "-"
        body == IF s # <<>> /\ Head(s) \in {"-", "+"} THEN Tail(s) ELSE s
    IN  IF body = <<>> \/ ~IsDigit(Head(body))
        THEN NaN
        ELSE Num(IF neg THEN 0 - ReadDigits(body, 0) ELSE ReadDigits(body, 0))

\* JavaScript truthiness of a header value: absent and "" are falsy
Truthy(hdr) == hdr # <<>> /\ hdr[1] # <<>>

-----------------------------------------------------------------------------
(* utils/retry.ts *)

\* variant: without the instanceof AxiosError test
IsRetriableError_NoClassCheck(error) ==
    IF error.status = 0 \/ error.code = "ECONNABORTED" \/ error.code = "ETIMEDOUT"
    THEN TRUE
    ELSE error.status >= 500 \/ error.status = 429 \/ error.status = 408

\* variant: a 4xx status other than 408 and 429 decides before the error code
IsRetriableError_StatusFirst(error) ==
    IF error.cls # "AxiosError" THEN FALSE
    ELSE IF error.status >= 400 /\ error.status < 500 /\ error.status \notin {408, 429}
         THEN FALSE
    ELSE IF error.status = 0 \/ error.code = "ECONNABORTED" \/ error.code = "ETIMEDOUT"
         THEN TRUE
    ELSE error.status >= 500 \/ error.status = 429 \/ error.status = 408

IsRetriableError(error) ==
    IF error.cls # "AxiosError" THEN FALSE
    ELSE IF error.status = 0 \/ error.code = "ECONNABORTED" \/ error.code = "ETIMEDOUT"
         THEN TRUE
    ELSE IF error.status >= 500 THEN TRUE
    ELSE IF error.status = 429 THEN TRUE
    ELSE IF error.status = 408 THEN TRUE
    ELSE FALSE

RECURSIVE Pow(_, _)
Pow(b, e) == IF e = 0 THEN 1 ELSE b * Pow(b, e - 1)

Min(a, b) == IF a <= b THEN a ELSE b

\* Math.floor(delay + delay * 0.25 * (Math.random() * 2 - 1)), Math.random() = k / JitterSteps
Jittered(d, k) == (d * (3 * JitterSteps + 2 * k)) \div (4 * JitterSteps)

Backoff(at, options) ==
    Min(options.initialDelay * Pow(options.multiplier, at), options.maxDelay)

\* variant: the Retry-After delay capped at maxDelay
GetRetryDelay_CapHeader(at, options, error, k) ==
    IF error.cls = "AxiosError" /\ Truthy(error.hdr) /\ ~ParseInt(error.hdr[1]).nan
    THEN Min(ParseInt(error.hdr[1]).val * 1000, options.maxDelay)
    ELSE Jittered(Backoff(at, options), k)

\* variant: the backoff not capped at maxDelay
GetRetryDelay_NoCap(at, options, error, k) ==
    IF error.cls = "AxiosError" /\ Truthy(error.hdr) /\ ~ParseInt(error.hdr[1]).nan
    THEN ParseInt(error.hdr[1]).val * 1000
    ELSE Jittered(options.initialDelay * Pow(options.multiplier, at), k)

\* variant: a jitter of 50% instead of 25%
GetRetryDelay_WideJitter(at, options, error, k) ==
    IF error.cls = "AxiosError" /\ Truthy(error.hdr) /\ ~ParseInt(error.hdr[1]).nan
    THEN ParseInt(error.hdr[1]).val * 1000
    ELSE (Backoff(at, options) * (JitterSteps + 2 * k)) \div (2 * JitterSteps)

\* variant: a header that does not parse counts as zero seconds
GetRetryDelay_NaNZero(at, options, error, k) ==
    IF error.cls = "AxiosError" /\ Truthy(error.hdr)
    THEN IF ParseInt(error.hdr[1]).nan THEN 0 ELSE ParseInt(error.hdr[1]).val * 1000
    ELSE Jittered(Backoff(at, options), k)

GetRetryDelay(at, options, error, k) ==
    IF error.cls = "AxiosError" /\ Truthy(error.hdr) /\ ~ParseInt(error.hdr[1]).nan
    THEN ParseInt(error.hdr[1]).val * 1000
    ELSE Jittered(Backoff(at, options), k)

\* variant: the last attempt taken one early
ShouldRethrow_OffByOne(error, at, options) ==
    \/ ~IsRetriableError(error)
    \/ at + 1 = options.maxRetries

\* variant: fatal errors retried like the others
ShouldRethrow_RetryAll(error, at, options) == at = options.maxRetries

\* the catch block's two exits before the delay (retry.ts lines 207-215)
ShouldRethrow(error, at, options) ==
    \/ ~IsRetriableError(error)
    \/ at = options.maxRetries

\* variant: the 0-based attempt index
RetryNumber_ZeroBased(at) == at

\* the first argument of opts.onRetry?.(attempt + 1, lastError)
RetryNumber(at) == at + 1

\* variant: the previous attempt's error thrown
Rethrown_First(error, previous) ==
    IF previous.cls = "undefined" THEN error ELSE previous

\* what the catch block throws: `throw error`
Rethrown(error, previous) == error

-----------------------------------------------------------------------------
(* client.ts: mapError, installed as the transport's response interceptor *)

MapError(error) ==
    IF error.status = 0
    THEN SDKErr("NetworkError", "NETWORK_ERROR", 0, <<>>, error.id)
    ELSE IF error.status = 401
    THEN SDKErr("AuthenticationError", "AUTHENTICATION_ERROR", 401, <<>>, error.id)
    ELSE IF error.status = 403
    THEN SDKErr("AuthorizationError", "AUTHORIZATION_ERROR", 403, <<>>, error.id)
    ELSE IF error.status = 429
    THEN SDKErr("RateLimitError", "RATE_LIMIT_ERROR", 429,
                IF Truthy(error.hdr) THEN <<ParseInt(error.hdr[1])>> ELSE <<>>,
                error.id)
    ELSE IF error.status \in {400, 422}
    THEN SDKErr("ValidationError", "VALIDATION_ERROR", 400, <<>>, error.id)
    ELSE SDKErr("APIError", "API_ERROR", error.status, <<>>, error.id)

\* the response interceptor's rejection handler: Promise.reject(this.mapError(error))
\* variant: the rejection is passed on as it is
Intercept_PassThrough(error) == error

Intercept(error) == MapError(error)

-----------------------------------------------------------------------------
(* Inputs *)

HeaderValues ==
    { <<>>,                               \* no Retry-After header
      << <<>> >>,                         \* Retry-After: (empty)
      << <<"2">> >>,                      \* Retry-After: 2
      << <<"0">> >>,                      \* Retry-After: 0
      << <<"1", "2", "0">> >>,            \* Retry-After: 120
      << <<" ", "7">> >>,                 \* Retry-After:  7
      << <<"3", "s">> >>,                 \* Retry-After: 3s
      << <<"i", "n", "v">> >>,            \* Retry-After: inv(alid)
      << <<"W", "e", "d", ",">> >> }      \* Retry-After: an HTTP date

Statuses == {0, 400, 401, 403, 404, 408, 422, 429, 500, 502, 503}

Codes == {"", "ECONNABORTED", "ETIMEDOUT", "ERR_BAD_RESPONSE"}

\* what the HTTP transport rejects with: an AxiosError
TransportErrors(id) ==
    { AxiosErr(st, c, h, id) :
        st \in {0, 401, 404, 408, 429, 503},
        c \in {"", "ECONNABORTED"},
        h \in { <<>>, << <<"2">> >>, << <<"1", "2", "0">> >>, << <<"i", "n", "v">> >> } }

\* what a caller's own operation may throw
OtherErrors(id) ==
    { PlainErr(id),
      SDKErr("NetworkError", "NETWORK_ERROR", 0, <<>>, id),
      SDKErr("APIError", "API_ERROR", 503, <<>>, id) }

ThrownErrors(id) == TransportErrors(id) \cup OtherErrors(id)

RetryPolicies ==
    [maxRetries : 0..MaxRetriesBound,
     initialDelay : {1, 1000},
     maxDelay : {1000, 30000},
     multiplier : {1, 2},
     onRetry : BOOLEAN]

-----------------------------------------------------------------------------
(* withRetry *)

FnIdle == fnName = "" /\ fnArgs = <<>> /\ fnRet = <<>>

PollIdle ==
    /\ popts = <<>>
    /\ condition = {}
    /\ now = 0
    /\ aborted = FALSE
    /\ ppc = "idle"
    /\ pollCalls = 0
    /\ callAt = 0
    /\ abortInfo = <<>>
    /\ value = <<>>
    /\ progressLog = <<>>
    /\ pollSleeps = 0
    /\ wakeAt = 0
    /\ poutcome = <<>>

WaitIdle == wopts = <<>> /\ errMessage = <<>> /\ woutcome = <<>>

UploadIdle ==
    /\ ubuf = 0
    /\ ufile = ""
    /\ initiateCalls = 0
    /\ uresp = <<>>
    /\ upc = "idle"
    /\ upIdx = 0
    /\ putLog = <<>>
    /\ putResponses = <<>>
    /\ uploadedParts = <<>>
    /\ completeLog = <<>>
    /\ cAttempt = 0
    /\ uoutcome = <<>>

BatchIdle ==
    /\ bfiles = 0
    /\ bconc = <<>>
    /\ bi = 0
    /\ bpc = "idle"
    /\ bround = 0
    /\ bstate = <<>>
    /\ bgroup = <<>>
    /\ bsubmits = <<>>
    /\ bresults = <<>>
    /\ boutcome = <<>>

\* the module lib/custom-instance.ts is loaded and no client is constructed
ClientIdle ==
    /\ axDefaults = [baseURL |-> "", timeout |-> 0, apiKey |-> ""]
    /\ axInterceptors = 0
    /\ clients = <<>>
    /\ ctorThrows = 0
    /\ inflight = <<>>
    /\ observed = <<>>

RetryIdle ==
    /\ opts = <<>>
    /\ viaClient = FALSE
    /\ attempt = 0
    /\ lastError = NoError
    /\ rawError = NoError
    /\ rpc = "idle"
    /\ opCalls = 0
    /\ delay = <<>>
    /\ sleeps = 0
    /\ retryLog = <<>>
    /\ outcome = <<>>

Init ==
    /\ opts \in RetryPolicies
    /\ viaClient \in BOOLEAN
    /\ attempt = 0
    /\ lastError = NoError
    /\ rawError = NoError
    /\ rpc = "loop"
    /\ opCalls = 0
    /\ delay = <<>>
    /\ sleeps = 0
    /\ retryLog = <<>>
    /\ outcome = <<>>
    /\ FnIdle
    /\ PollIdle
    /\ WaitIdle
    /\ UploadIdle
    /\ BatchIdle
    /\ ClientIdle

\* for (...; attempt <= opts.maxRetries; ...) { try { return await operation(); }
\* and, when the loop ends, throw lastError
Invoke ==
    /\ rpc = "loop"
    /\ IF attempt <= opts.maxRetries
       THEN /\ rpc' = "await"
            /\ opCalls' = opCalls + 1
            /\ outcome' = outcome
       ELSE /\ rpc' = "thrown"
            /\ opCalls' = opCalls
            /\ outcome' = <<[kind |-> "error", error |-> lastError]>>
    /\ UNCHANGED <<opts, viaClient, attempt, lastError, rawError, delay, sleeps,
                   retryLog, fnVars, pollVars, waitVars, uploadVars, batchVars, clientVars>>

\* operation() resolves: return its value
Resolve ==
    /\ rpc = "await"
    /\ rpc' = "returned"
    /\ outcome' = <<[kind |-> "value", id |-> opCalls]>>
    /\ UNCHANGED <<opts, viaClient, attempt, lastError, rawError, opCalls, delay,
                   sleeps, retryLog, fnVars, pollVars, waitVars, uploadVars, batchVars, clientVars>>

\* the catch block, entered with `error` (raw: the transport's rejection, if any)
Catch(error, raw) ==
    /\ lastError' = error
    /\ rawError' = raw
    /\ IF ShouldRethrow(error, attempt, opts)
       THEN /\ rpc' = "thrown"
            /\ outcome' = <<[kind |-> "error", error |-> Rethrown(error, lastError)]>>
            /\ UNCHANGED <<delay, sleeps, retryLog>>
       ELSE /\ \E k \in 0..(JitterSteps - 1) :
                   delay' = <<GetRetryDelay(attempt, opts, error, k)>>
            /\ retryLog' = IF opts.onRetry
                           THEN Append(retryLog, [attempt |-> RetryNumber(attempt),
                                                  errId |-> error.id,
                                                  atCalls |-> opCalls,
                                                  atSleeps |-> sleeps])
                           ELSE retryLog
            /\ sleeps' = sleeps + 1
            /\ rpc' = "sleep"
            /\ outcome' = outcome
    /\ UNCHANGED <<opts, viaClient, attempt, opCalls, fnVars, pollVars, waitVars, uploadVars, batchVars, clientVars>>

\* a caller's own operation rejects
RejectDirect ==
    /\ rpc = "await"
    /\ ~viaClient
    /\ \E e \in ThrownErrors(opCalls) : Catch(e, NoError)

\* a service call rejects: the transport's AxiosError passes the response interceptor
RejectViaClient ==
    /\ rpc = "await"
    /\ viaClient
    /\ \E raw \in TransportErrors(opCalls) : Catch(Intercept(raw), raw)

\* the setTimeout of the catch block fires: attempt++
Wake ==
    /\ rpc = "sleep"
    /\ attempt' = attempt + 1
    /\ rpc' = "loop"
    /\ UNCHANGED <<opts, viaClient, lastError, rawError, opCalls, delay, sleeps,
                   retryLog, outcome, fnVars, pollVars, waitVars, uploadVars, batchVars, clientVars>>

Next ==
    \/ Invoke
    \/ Resolve
    \/ RejectDirect
    \/ RejectViaClient
    \/ Wake

Spec == Init /\ [][Next]_vars

-----------------------------------------------------------------------------
(* services/ocr.ts: mapJobStatus.  A payload field is <<>> when missing. *)

\* variant: the status is copied as it is
MapJobStatus_Copy(status) == status

\* mapJobStatus: status: data.status || "pending"
MapJobStatus(status) == IF status = "" THEN "pending" ELSE status

\* a || b on an optional string: undefined and "" give b
OrString(option, default) ==
    IF option = <<>> \/ option[1] = "" THEN default ELSE option[1]

\* x ? new Date(x) : fallback
DateOr(option, fallback) ==
    IF option = <<>> \/ option[1] = "" THEN fallback ELSE <<"Date", option[1]>>

\* new Date()
CurrentInstant == <<"Date", "now">>

MapJobStatusData(data) ==
    [jobId               |-> OrString(data.job_id, OrString(data.id, "")),
     status              |-> MapJobStatus(OrString(data.status, "")),
     progress            |-> data.progress,
     estimatedCompletion |-> DateOr(data.estimated_completion, <<>>),
     error               |-> data.error,
     createdAt           |-> DateOr(data.created_at, CurrentInstant),
     updatedAt           |-> DateOr(data.updated_at, CurrentInstant)]

\* the raw status payloads drawn
StatusPayloads ==
    [job_id : {<<>>, <<"job-1">>},
     id : {<<>>, <<"id-1">>},
     status : {<<>>, <<"">>, <<"pending">>, <<"processing">>, <<"completed">>,
               <<"failed">>, <<"partially_done">>},
     progress : {<<>>, <<0>>, <<42>>},
     estimated_completion : {<<>>, <<"2025-01-01T00:10:00Z">>},
     error : {<<>>, <<[code |-> "OCR_FAILED", message |-> "unreadable"]>>},
     created_at : {<<>>, <<"2025-01-01T00:00:00Z">>},
     updated_at : {<<>>, <<"2025-01-01T00:05:00Z">>}]

------------------------------------------------------------------------------
(* One application of a pure function of utils/retry.ts or services/ocr.ts *)

AllErrors ==
    { AxiosErr(st, c, h, 1) : st \in Statuses, c \in Codes,
                              h \in { <<>>, << <<"2">> >> } }
    \cup { MapError(AxiosErr(st, "", <<>>, 1)) : st \in Statuses }
    \cup { PlainErr(1) }

DelayErrors ==
    { AxiosErr(st, "", h, 1) : st \in {0, 429, 503}, h \in HeaderValues }
    \cup { PlainErr(1), SDKErr("RateLimitError", "RATE_LIMIT_ERROR", 429, <<Num(2)>>, 1) }

DelayPolicies ==
    [maxRetries : {3},
     initialDelay : {1, 1000},
     maxDelay : {1000, 5000, 30000},
     multiplier : {1, 2, 3},
     onRetry : {FALSE}]

InitFn ==
    /\ \/ /\ fnName = "isRetriableError"
          /\ fnArgs \in [error : AllErrors]
       \/ /\ fnName = "getRetryDelay"
          /\ fnArgs \in [attempt : 0..MaxAttemptIndex, options : DelayPolicies,
                         error : DelayErrors]
       \/ /\ fnName = "mapJobStatus"
          /\ fnArgs \in [data : StatusPayloads]
    /\ fnRet = <<>>
    /\ RetryIdle
    /\ PollIdle
    /\ WaitIdle
    /\ UploadIdle
    /\ BatchIdle
    /\ ClientIdle

ApplyIsRetriableError ==
    /\ fnName = "isRetriableError"
    /\ fnRet = <<>>
    /\ fnRet' = <<IsRetriableError(fnArgs.error)>>
    /\ UNCHANGED <<fnName, fnArgs, retryVars, pollVars, waitVars, uploadVars, batchVars, clientVars>>

ApplyGetRetryDelay ==
    /\ fnName = "getRetryDelay"
    /\ fnRet = <<>>
    /\ \E k \in 0..(JitterSteps - 1) :
          fnRet' = <<GetRetryDelay(fnArgs.attempt, fnArgs.options, fnArgs.error, k)>>
    /\ UNCHANGED <<fnName, fnArgs, retryVars, pollVars, waitVars, uploadVars, batchVars, clientVars>>

ApplyMapJobStatus ==
    /\ fnName = "mapJobStatus"
    /\ fnRet = <<>>
    /\ fnRet' = <<MapJobStatusData(fnArgs.data)>>
    /\ UNCHANGED <<fnName, fnArgs, retryVars, pollVars, waitVars, uploadVars, batchVars, clientVars>>

NextFn ==
    \/ ApplyIsRetriableError
    \/ ApplyGetRetryDelay
    \/ ApplyMapJobStatus

SpecFn == InitFn /\ [][NextFn]_vars

-----------------------------------------------------------------------------
(* utils/polling.ts: pollUntil.  Time is in ms since startTime = Date.now(). *)

\* the values the polled operation resolves with
PollValues == {"pending", "completed"}

\* the predicates drawn: terminal status, and one that never succeeds
Conditions == { {"completed"}, {} }

\* how long one operation() call may take, in ms
Latencies == {0, 30, 500}

\* how late a timer may fire, in ms
TimerSlack == {0, 5}

PollPolicies ==
    { [pollInterval |-> p[1], maxWait |-> p[2], onProgress |-> cb, signal |-> sg] :
        p \in { <<100, 500>>, <<1000, 2500>>, <<1000, 500>> },
        cb \in BOOLEAN, sg \in BOOLEAN }

\* variant: > instead of >=
TimedOut_Strict(elapsed, options) == elapsed > options.maxWait

\* if (elapsed >= opts.maxWait)
TimedOut(elapsed, options) == elapsed >= options.maxWait

\* variant: the sleep is the whole pollInterval
PollDelay_NoMin(elapsed, options) == options.pollInterval

\* Math.min(opts.pollInterval, opts.maxWait - elapsed)
PollDelay(elapsed, options) == Min(options.pollInterval, options.maxWait - elapsed)

\* variant: the timeout tested, the condition never
AfterValue_IgnoreCondition(val, cond, elapsed, options) ==
    IF TimedOut(elapsed, options) THEN "timeout" ELSE "sleep"

\* variant: the timeout tested before the condition
AfterValue_TimeoutFirst(val, cond, elapsed, options) ==
    IF TimedOut(elapsed, options) THEN "timeout"
    ELSE IF val \in cond THEN "return"
    ELSE "sleep"

\* what one iteration does with the value: the condition is checked before the timeout
AfterValue(val, cond, elapsed, options) ==
    IF val \in cond THEN "return"
    ELSE IF TimedOut(elapsed, options) THEN "timeout"
    ELSE "sleep"

\* variant: a value equal to the one reported last is not reported again
Progress_Changes(log, options, entry) ==
    IF options.onProgress /\ (log = <<>> \/ log[Len(log)].value # entry.value)
    THEN Append(log, entry)
    ELSE log

\* opts.onProgress?.(value): the calls of onProgress so far
Progress(log, options, entry) ==
    IF options.onProgress THEN Append(log, entry) ELSE log

\* variant: the rejection of the invocation before
OperationError_Previous(id) == [kind |-> "operation", id |-> id - 1]

\* await operation() rejects: the error of invocation id leaves pollUntil
OperationError(id) == [kind |-> "operation", id |-> id]

\* variant: the signal is never looked at
Cancelled_Never(options, ab) == FALSE

\* opts.signal?.aborted
Cancelled(options, ab) == options.signal /\ ab

InitPoll ==
    /\ popts \in PollPolicies
    /\ condition \in Conditions
    /\ now = 0
    /\ aborted \in (IF popts.signal THEN BOOLEAN ELSE {FALSE})
    /\ ppc = "top"
    /\ pollCalls = 0
    /\ callAt = 0
    /\ abortInfo = (IF aborted THEN <<[calls |-> 0, at |-> "top"]>> ELSE <<>>)
    /\ value = <<>>
    /\ progressLog = <<>>
    /\ pollSleeps = 0
    /\ wakeAt = 0
    /\ poutcome = <<>>
    /\ RetryIdle
    /\ FnIdle
    /\ WaitIdle
    /\ UploadIdle
    /\ BatchIdle
    /\ ClientIdle

\* if (opts.signal?.aborted) throw new Error('Polling cancelled')
PollCancelled ==
    /\ ppc = "top"
    /\ Cancelled(popts, aborted)
    /\ ppc' = "thrown"
    /\ poutcome' = <<[kind |-> "cancelled", at |-> now]>>
    /\ UNCHANGED <<popts, condition, now, aborted, pollCalls, callAt, abortInfo, value,
                   progressLog, pollSleeps, wakeAt, retryVars, fnVars, waitVars, uploadVars, batchVars, clientVars>>

\* const value = await operation(): the call starts
PollInvoke ==
    /\ ppc = "top"
    /\ ~Cancelled(popts, aborted)
    /\ ppc' = "await"
    /\ pollCalls' = pollCalls + 1
    /\ callAt' = now
    /\ UNCHANGED <<popts, condition, now, aborted, abortInfo, value, progressLog, pollSleeps,
                   wakeAt, poutcome, retryVars, fnVars, waitVars, uploadVars, batchVars, clientVars>>

\* operation() resolves with v after lat ms: onProgress, condition, timeout, setTimeout
PollValue ==
    /\ ppc = "await"
    /\ \E v \in PollValues, lat \in Latencies :
          LET elapsed == now + lat
              step == AfterValue(v, condition, elapsed, popts)
          IN  /\ now' = elapsed
              /\ value' = <<[value |-> v, id |-> pollCalls]>>
              /\ progressLog' = Progress(progressLog, popts, [value |-> v, id |-> pollCalls])
              /\ IF step = "return"
                 THEN /\ ppc' = "returned"
                      /\ poutcome' = <<[kind |-> "value", value |-> v, id |-> pollCalls]>>
                      /\ UNCHANGED <<pollSleeps, wakeAt>>
                 ELSE IF step = "timeout"
                 THEN /\ ppc' = "thrown"
                      /\ poutcome' = <<[kind |-> "timeout", maxWait |-> popts.maxWait]>>
                      /\ UNCHANGED <<pollSleeps, wakeAt>>
                 ELSE /\ ppc' = "sleep"
                      /\ wakeAt' = elapsed + PollDelay(elapsed, popts)
                      /\ pollSleeps' = pollSleeps + 1
                      /\ poutcome' = poutcome
    /\ UNCHANGED <<popts, condition, aborted, pollCalls, callAt, abortInfo, retryVars,
                   fnVars, waitVars, uploadVars, batchVars, clientVars>>

\* operation() rejects after lat ms: the error propagates
PollError ==
    /\ ppc = "await"
    /\ \E lat \in Latencies : now' = now + lat
    /\ ppc' = "thrown"
    /\ poutcome' = <<OperationError(pollCalls)>>
    /\ UNCHANGED <<popts, condition, aborted, pollCalls, callAt, abortInfo, value,
                   progressLog, pollSleeps, wakeAt, retryVars, fnVars, waitVars, uploadVars, batchVars, clientVars>>

\* the setTimeout of the loop fires, no earlier than asked
PollWake ==
    /\ ppc = "sleep"
    /\ \E late \in TimerSlack : now' = wakeAt + late
    /\ ppc' = "top"
    /\ UNCHANGED <<popts, condition, aborted, pollCalls, callAt, abortInfo, value,
                   progressLog, pollSleeps, wakeAt, poutcome, retryVars, fnVars, waitVars, uploadVars, batchVars, clientVars>>

\* the caller aborts the signal while pollUntil is running
Abort ==
    /\ ppc \in {"top", "await", "sleep"}
    /\ popts.signal /\ ~aborted
    /\ aborted' = TRUE
    /\ abortInfo' = <<[calls |-> pollCalls, at |-> ppc]>>
    /\ UNCHANGED <<popts, condition, now, ppc, pollCalls, callAt, value, progressLog,
                   pollSleeps, wakeAt, poutcome, retryVars, fnVars, waitVars, uploadVars, batchVars, clientVars>>

NextPoll ==
    \/ PollCancelled
    \/ PollInvoke
    \/ PollValue
    \/ PollError
    \/ PollWake
    \/ Abort

SpecPoll == InitPoll /\ [][NextPoll]_vars

-----------------------------------------------------------------------------
(* OCRService.waitUntilDone: pollUntil over getJobStatus, which is withRetry   *)
(* over the client's status request, with the .catch handler on top.           *)
(* A message is a sequence of pieces cut so that every occurrence of the       *)
(* substring "timeout" is a piece of its own.                                  *)

\* utils/constants.ts
DEFAULT_POLL_INTERVAL == 2000
DEFAULT_MAX_WAIT == 300000

\* message.includes(word)
Includes(message, word) == \E i \in 1..Len(message) : message[i] = word

\* o || d for an optional number: undefined and 0 give d
OrDefault(o, d) == IF o = <<>> \/ o[1] = 0 THEN d ELSE o[1]

\* `Polling timeout after ${opts.maxWait}ms`
PollingTimeoutMessage == <<"Polling ", "timeout", " after N ms">>

\* 'Polling cancelled'
PollingCancelledMessage == <<"Polling cancelled">>

\* error.message of the transport's AxiosError
AxiosMessage(error) ==
    IF error.code = "ECONNABORTED" THEN <<"timeout", " of 30000ms exceeded">>
    ELSE IF error.status = 0 THEN <<"Network Error">>
    ELSE <<"Request failed with status code N">>

\* error.response.data.message: <<>> when the body has none
BodyMessages == { <<>>, << <<"Job not found">> >>, << <<"Upstream request ", "timeout">> >> }

\* the message mapError gives the SDK error
MapMessage(error, body) ==
    IF error.status = 0 THEN <<"Network error: ">> \o AxiosMessage(error)
    ELSE IF body # <<>> THEN body[1]
    ELSE AxiosMessage(error)

\* data.status of a status response: "" when the field is missing, and one
\* status outside JobStatusType
ServerStatuses == {"", "processing", "completed", "failed", "partially_done"}

\* (status) => status.status === "completed" || status.status === "failed"
TerminalStatuses == {"completed", "failed"}

\* how waitUntilDone settles
WaitValue(status, id) ==
    [kind |-> "value", status |-> status, error |-> NoError, message |-> <<>>,
     timeoutMs |-> 0, id |-> id]

WaitError(error, message) ==
    [kind |-> "error", status |-> "", error |-> error, message |-> message,
     timeoutMs |-> 0, id |-> error.id]

WaitTimeoutError(timeoutMs) ==
    [kind |-> "TimeoutError", status |-> "", error |-> NoError,
     message |-> <<"Job J timed out after N ms">>, timeoutMs |-> timeoutMs, id |-> 0]

\* variant: the handler rethrows whatever it is given
CatchPoll_Rethrow(error, message, options) == WaitError(error, message)

\* .catch((error) => { if (error.message?.includes("timeout")) throw new TimeoutError(...); throw error; })
CatchPoll(error, message, options) ==
    IF Includes(message, "timeout")
    THEN WaitTimeoutError(OrDefault(options.maxWait, DEFAULT_MAX_WAIT))
    ELSE WaitError(error, message)

\* the Error objects pollUntil creates itself
PollingError == PlainErr(0)

\* the polls of one call are followed up to this number
MaxPolls == 8

WaitOptions ==
    [pollInterval : { <<>>, <<200>> },
     maxWait : { <<500>>, <<1000>> },
     signal : BOOLEAN]

\* the rejections of the status request drawn
StatusErrors(id) ==
    { AxiosErr(st, c, <<>>, id) : st \in {0, 404, 503}, c \in {"", "ECONNABORTED"} }

\* the client's config as getJobStatus hands it to withRetry, merged with the defaults
ClientRetryPolicies ==
    { [maxRetries |-> n, initialDelay |-> 1000, maxDelay |-> 30000, multiplier |-> 2,
       onRetry |-> FALSE] : n \in {0, MaxRetriesBound} }

InitWait ==
    /\ wopts \in WaitOptions
    /\ popts = [pollInterval |-> OrDefault(wopts.pollInterval, DEFAULT_POLL_INTERVAL),
                maxWait |-> OrDefault(wopts.maxWait, DEFAULT_MAX_WAIT),
                onProgress |-> FALSE,
                signal |-> wopts.signal]
    /\ condition = TerminalStatuses
    /\ now = 0
    /\ aborted \in (IF wopts.signal THEN BOOLEAN ELSE {FALSE})
    /\ abortInfo = (IF aborted THEN <<[calls |-> 0, at |-> "top"]>> ELSE <<>>)
    /\ ppc = "top"
    /\ pollCalls = 0
    /\ callAt = 0
    /\ value = <<>>
    /\ progressLog = <<>>
    /\ pollSleeps = 0
    /\ wakeAt = 0
    /\ poutcome = <<>>
    /\ opts \in ClientRetryPolicies
    /\ viaClient = TRUE
    /\ attempt = 0
    /\ lastError = NoError
    /\ rawError = NoError
    /\ rpc = "idle"
    /\ opCalls = 0
    /\ delay = <<>>
    /\ sleeps = 0
    /\ retryLog = <<>>
    /\ outcome = <<>>
    /\ errMessage = <<>>
    /\ woutcome = <<>>
    /\ FnIdle
    /\ UploadIdle
    /\ BatchIdle
    /\ ClientIdle

\* pollUntil finds the signal aborted; the handler rethrows the cancellation error
WaitCancelled ==
    /\ ppc = "top"
    /\ Cancelled(popts, aborted)
    /\ ppc' = "thrown"
    /\ poutcome' = <<[kind |-> "cancelled", at |-> now]>>
    /\ woutcome' = <<CatchPoll(PollingError, PollingCancelledMessage, wopts)>>
    /\ UNCHANGED <<popts, condition, now, aborted, pollCalls, callAt, abortInfo, value,
                   progressLog, pollSleeps, wakeAt, retryVars, fnVars, wopts, errMessage, uploadVars, batchVars, clientVars>>

\* this.client.getJobStatus(jobId) is called: by a new poll (pollUntil calls
\* getJobStatus, which enters withRetry with attempt 0), or by withRetry when the
\* timer of its catch block has fired (attempt++)
StatusRequest ==
    /\ \/ ppc = "top" /\ ~Cancelled(popts, aborted) /\ pollCalls < MaxPolls
       \/ ppc = "await" /\ rpc = "sleep"
    /\ IF ppc = "top"
       THEN /\ pollCalls' = pollCalls + 1
            /\ callAt' = now
            /\ attempt' = 0
            /\ lastError' = NoError
            /\ rawError' = NoError
            /\ outcome' = <<>>
            /\ UNCHANGED now
       ELSE /\ \E late \in TimerSlack : now' = now + delay[1] + late
            /\ attempt' = attempt + 1
            /\ UNCHANGED <<pollCalls, callAt, lastError, rawError, outcome>>
    /\ ppc' = "await"
    /\ rpc' = "await"
    /\ opCalls' = opCalls + 1
    /\ UNCHANGED <<popts, condition, aborted, abortInfo, value, progressLog, pollSleeps,
                   wakeAt, poutcome, opts, viaClient, delay, sleeps, retryLog, fnVars,
                   waitVars, uploadVars, batchVars, clientVars>>

\* the status request resolves after lat ms: withRetry returns, getJobStatus maps the
\* payload, pollUntil tests the predicate and the deadline
StatusResponse ==
    /\ ppc = "await" /\ rpc = "await"
    /\ \E st \in ServerStatuses, lat \in Latencies :
          LET elapsed == now + lat
              v == MapJobStatus(st)
              step == AfterValue(v, condition, elapsed, popts)
          IN  /\ now' = elapsed
              /\ outcome' = <<[kind |-> "value", id |-> opCalls]>>
              /\ value' = <<[value |-> v, id |-> pollCalls]>>
              /\ IF step = "return"
                 THEN /\ ppc' = "returned"
                      /\ poutcome' = <<[kind |-> "value", value |-> v, id |-> pollCalls]>>
                      /\ woutcome' = <<WaitValue(v, pollCalls)>>
                      /\ UNCHANGED <<pollSleeps, wakeAt>>
                 ELSE IF step = "timeout"
                 THEN /\ ppc' = "thrown"
                      /\ poutcome' = <<[kind |-> "timeout", maxWait |-> popts.maxWait]>>
                      /\ woutcome' = <<CatchPoll(PollingError, PollingTimeoutMessage, wopts)>>
                      /\ UNCHANGED <<pollSleeps, wakeAt>>
                 ELSE /\ ppc' = "sleep"
                      /\ wakeAt' = elapsed + PollDelay(elapsed, popts)
                      /\ pollSleeps' = pollSleeps + 1
                      /\ UNCHANGED <<poutcome, woutcome>>
    /\ rpc' = "returned"
    /\ UNCHANGED <<popts, condition, aborted, pollCalls, callAt, abortInfo, progressLog,
                   opts, viaClient, attempt, lastError, rawError, opCalls, delay, sleeps,
                   retryLog, fnVars, wopts, errMessage, uploadVars, batchVars, clientVars>>

\* the status request rejects after lat ms: the AxiosError passes the response
\* interceptor; withRetry rethrows it or sleeps; a rethrown error leaves
\* getJobStatus and pollUntil as it is and reaches the .catch handler
StatusFailure ==
    /\ ppc = "await" /\ rpc = "await"
    /\ \E raw \in StatusErrors(opCalls), body \in BodyMessages, lat \in Latencies :
          LET error == Intercept(raw)
              message == MapMessage(raw, body)
          IN  /\ raw.status = 0 => body = <<>>
              /\ now' = now + lat
              /\ lastError' = error
              /\ rawError' = raw
              /\ errMessage' = message
              /\ IF ShouldRethrow(error, attempt, opts)
                 THEN /\ rpc' = "thrown"
                      /\ outcome' = <<[kind |-> "error", error |-> Rethrown(error, lastError)]>>
                      /\ ppc' = "thrown"
                      /\ poutcome' = <<[kind |-> "operation", id |-> pollCalls]>>
                      /\ woutcome' = <<CatchPoll(Rethrown(error, lastError), message, wopts)>>
                      /\ UNCHANGED <<delay, sleeps>>
                 ELSE /\ \E k \in 0..(JitterSteps - 1) :
                             delay' = <<GetRetryDelay(attempt, opts, error, k)>>
                      /\ sleeps' = sleeps + 1
                      /\ rpc' = "sleep"
                      /\ UNCHANGED <<outcome, ppc, poutcome, woutcome>>
    /\ UNCHANGED <<popts, condition, aborted, pollCalls, callAt, abortInfo, value,
                   progressLog, pollSleeps, wakeAt, opts, viaClient, attempt, opCalls,
                   retryLog, fnVars, wopts, uploadVars, batchVars, clientVars>>

\* the setTimeout of pollUntil fires, no earlier than asked
WaitWake ==
    /\ ppc = "sleep"
    /\ \E late \in TimerSlack : now' = wakeAt + late
    /\ ppc' = "top"
    /\ UNCHANGED <<popts, condition, aborted, pollCalls, callAt, abortInfo, value,
                   progressLog, pollSleeps, wakeAt, poutcome, retryVars, fnVars, waitVars, uploadVars, batchVars, clientVars>>

\* the caller aborts the signal while waitUntilDone is suspended: in a status
\* request, in a sleep of withRetry or in a sleep of pollUntil
WaitAbort ==
    /\ ppc \in {"await", "sleep"}
    /\ popts.signal /\ ~aborted
    /\ aborted' = TRUE
    /\ abortInfo' = <<[calls |-> pollCalls, at |-> ppc]>>
    /\ UNCHANGED <<popts, condition, now, ppc, pollCalls, callAt, value, progressLog,
                   pollSleeps, wakeAt, poutcome, retryVars, fnVars, waitVars, uploadVars, batchVars, clientVars>>

NextWait ==
    \/ WaitCancelled
    \/ StatusRequest
    \/ StatusResponse
    \/ StatusFailure
    \/ WaitWake
    \/ WaitAbort

SpecWait == InitWait /\ [][NextWait]_vars

\* every status request returns or fails, every timer fires, and the code
\* between two awaits runs; the caller need not abort
SpecWaitFair ==
    /\ InitWait
    /\ [][NextWait]_vars
    /\ WF_vars(WaitCancelled \/ StatusRequest)
    /\ WF_vars(StatusResponse \/ StatusFailure)
    /\ WF_vars(WaitWake)

-----------------------------------------------------------------------------
(* OCRService.processFileBuffer and uploadParts: the presigned upload.        *)
(* A part descriptor is [part_number, upload_url], each <<>> when the field   *)
(* is missing; an ETag is a sequence of characters.                           *)

\* most part descriptors in an initiate response
MaxParts == 3

Quote == "\""

Max(a, b) == IF a >= b THEN a ELSE b

\* variant: Math.floor
CeilDiv_Floor(a, b) == a \div b

\* Math.ceil(a / b) for a >= 0, b > 0
CeilDiv(a, b) == (a + b - 1) \div b

\* buffer.slice(start, end) of a buffer of length len, as the bytes [from, to):
\* a negative index counts from the end, indices are clamped to the buffer
SliceIndex(len, i) == IF i < 0 THEN Max(len + i, 0) ELSE Min(i, len)

Slice(len, start, end) ==
    LET from == SliceIndex(len, start)
        to == SliceIndex(len, end)
    IN  [from |-> from, to |-> Max(from, to)]

\* chunkSize, start and end as uploadParts computes them for part_number,
\* of `count` parts
ChunkBounds(len, count, part_number) ==
    LET chunkSize == CeilDiv(len, count)
        start == (part_number - 1) * chunkSize
        end == Min(start + chunkSize, len)
    IN  [start |-> start, end |-> end]

\* the byte range uploadParts sends for part_number, of `count` parts
Chunk(len, count, part_number) ==
    LET bounds == ChunkBounds(len, count, part_number)
    IN  Slice(len, bounds.start, bounds.end)

\* etag.replace(/"/g, "")
RECURSIVE StripQuotes(_)
StripQuotes(etag) ==
    IF etag = <<>> THEN <<>>
    ELSE IF Head(etag) = Quote THEN StripQuotes(Tail(etag))
    ELSE <<Head(etag)>> \o StripQuotes(Tail(etag))

\* typeof part.part_number === "number" && typeof part.upload_url === "string"
ValidPart(part) == part.part_number # <<>> /\ part.upload_url # <<>>

\* parts.filter(...)
RECURSIVE Filter(_)
Filter(parts) ==
    IF parts = <<>> THEN <<>>
    ELSE IF ValidPart(Head(parts)) THEN <<Head(parts)>> \o Filter(Tail(parts))
    ELSE Filter(Tail(parts))

\* variant: the response's status alone decides
PutFailure_StatusOnly(response) == response.kind = "rejected" \/ ~response.ok

\* fetch rejects, or !response.ok, or !etag (null or the empty string)
PutFailure(response) ==
    \/ response.kind = "rejected"
    \/ ~response.ok
    \/ response.etag = <<>>
    \/ response.etag = << <<>> >>

\* variant: more than one uploaded part decides
NeedsComplete_ByCount(upload_type, uploaded) == Len(uploaded) > 1

\* upload_type === "multipart" && uploadedParts.length > 0
NeedsComplete(upload_type, uploaded) == upload_type = "multipart" /\ Len(uploaded) > 0

\* the PUT uploadParts issues for validParts[i]
PutFor(len, validParts, i) ==
    LET part == validParts[i]
        chunk == Chunk(len, Len(validParts), part.part_number[1])
    IN  [url |-> part.upload_url[1], part_number |-> part.part_number[1],
         from |-> chunk.from, to |-> chunk.to]

MAX_FILE_SIZE == 100 * 1024 * 1024

SUPPORTED_EXTENSIONS == {".pdf", ".png", ".jpg", ".jpeg", ".tiff", ".tif", ".webp"}

\* extname(fileName) of the file names drawn
Extensions == {".pdf", ".PDF", ".txt", ""}

\* String.prototype.toLowerCase on the extensions drawn
ToLowerCase(ext) == IF ext = ".PDF" THEN ".pdf" ELSE ext

\* variant: the size is the only check
ValidateBuffer_SizeOnly(length, ext) == length <= MAX_FILE_SIZE

\* validateBuffer(buffer, fileName).valid
ValidateBuffer(length, ext) ==
    IF length > MAX_FILE_SIZE
    THEN FALSE
    ELSE IF ToLowerCase(ext) \notin SUPPORTED_EXTENSIONS
    THEN FALSE
    ELSE TRUE

BufferLengths == {0, 1, 5, 300, MAX_FILE_SIZE + 1}

\* descriptor lists: the i-th has URL i or none, and a part number or none;
\* the part numbers present are distinct
PartLists ==
    UNION { { parts \in [1..n -> [part_number : {<<>>} \cup { <<k>> : k \in 1..n },
                                  upload_url : {<<>>}] \cup
                                 [part_number : {<<>>} \cup { <<k>> : k \in 1..n },
                                  upload_url : { <<i>> : i \in 1..n }]] :
                  /\ \A i \in 1..n : parts[i].upload_url \in {<<>>, <<i>>}
                  /\ \A i, j \in 1..n :
                        (i # j /\ parts[i].part_number # <<>>)
                            => parts[i].part_number # parts[j].part_number }
            : n \in 0..MaxParts }

\* parts is <<>> when the response has no such field, else <<list>>
InitiateResponses ==
    [job_id : BOOLEAN,
     parts : {<<>>} \cup { <<l>> : l \in PartLists },
     upload_type : {"", "single", "multipart"}]

\* what a PUT to a presigned URL may answer; etag: <<>> no header, else <<chars>>
PutResponses ==
    { [kind |-> "rejected", ok |-> FALSE, etag |-> <<>>] } \cup
    [kind : {"response"}, ok : BOOLEAN,
     etag : { <<>>, << <<>> >>, << <<Quote, "a", Quote>> >>, << <<"a">> >> }]

InitUpload ==
    /\ ubuf \in BufferLengths
    /\ ufile \in Extensions
    /\ initiateCalls = 0
    /\ uresp \in InitiateResponses
    /\ upc = "called"
    /\ upIdx = 0
    /\ putLog = <<>>
    /\ putResponses = <<>>
    /\ uploadedParts = <<>>
    /\ completeLog = <<>>
    /\ cAttempt = 0
    /\ uoutcome = <<>>
    /\ opts \in ClientRetryPolicies
    /\ viaClient = TRUE
    /\ attempt = 0
    /\ lastError = NoError
    /\ rawError = NoError
    /\ rpc = "idle"
    /\ opCalls = 0
    /\ delay = <<>>
    /\ sleeps = 0
    /\ retryLog = <<>>
    /\ outcome = <<>>
    /\ FnIdle
    /\ PollIdle
    /\ WaitIdle
    /\ BatchIdle
    /\ ClientIdle

\* the ETag header's text, empty when there is no header
EtagText(response) == IF response.etag = <<>> THEN <<>> ELSE response.etag[1]

UploadDone(kind, at) == <<[kind |-> kind, at |-> at]>>

\* processFileBuffer is called: the buffer is validated, and a valid one is
\* announced to the server
ProcessFileBuffer ==
    /\ upc = "called"
    /\ IF ~ValidateBuffer(ubuf, ufile)
       THEN /\ upc' = "thrown"
            /\ uoutcome' = UploadDone("FileError", 0)
            /\ UNCHANGED initiateCalls
       ELSE /\ upc' = "initiate"
            /\ initiateCalls' = initiateCalls + 1
            /\ UNCHANGED uoutcome
    /\ UNCHANGED <<ubuf, ufile, uresp, upIdx, putLog, putResponses, uploadedParts,
                   completeLog, cAttempt, retryVars, fnVars, pollVars, waitVars,
                   batchVars, clientVars>>

\* this.client.directUpload rejects: processFileBuffer rejects
InitiateReject ==
    /\ upc = "initiate"
    /\ upc' = "thrown"
    /\ uoutcome' = UploadDone("initiate failed", 0)
    /\ UNCHANGED <<ubuf, ufile, initiateCalls, uresp, upIdx, putLog, putResponses, uploadedParts, completeLog,
                   cAttempt, retryVars, fnVars, pollVars, waitVars, batchVars, clientVars>>

\* this.client.directUpload resolves: the response is checked and filtered, and
\* uploadParts issues the PUT of the first valid part
InitiateResolve ==
    /\ upc = "initiate"
    /\ IF ~uresp.job_id \/ uresp.parts = <<>>
       THEN /\ upc' = "thrown"
            /\ uoutcome' = UploadDone("Invalid upload response", 0)
            /\ UNCHANGED <<upIdx, putLog>>
       ELSE LET validParts == Filter(uresp.parts[1])
            IN  IF Len(validParts) = 0
                THEN /\ upc' = "thrown"
                     /\ uoutcome' = UploadDone("No valid upload parts in response", 0)
                     /\ UNCHANGED <<upIdx, putLog>>
                ELSE /\ upc' = "put"
                     /\ upIdx' = 1
                     /\ putLog' = <<PutFor(ubuf, validParts, 1)>>
                     /\ UNCHANGED uoutcome
    /\ UNCHANGED <<ubuf, ufile, initiateCalls, uresp, putResponses, uploadedParts, completeLog, cAttempt,
                   retryVars, fnVars, pollVars, waitVars, batchVars, clientVars>>

\* the PUT in flight settles: a failure ends uploadParts; otherwise the part is
\* recorded, and the next PUT is issued or, after the last part, the completion
\* call is made or processFileBuffer returns
PutSettles ==
    /\ upc = "put"
    /\ \E response \in PutResponses :
          LET validParts == Filter(uresp.parts[1])
              uploaded == Append(uploadedParts,
                                 [part_number |-> validParts[upIdx].part_number[1],
                                  etag |-> StripQuotes(EtagText(response))])
          IN  /\ putResponses' = Append(putResponses, response)
              /\ IF PutFailure(response)
                 THEN /\ upc' = "thrown"
                      /\ uoutcome' = UploadDone("put failed", upIdx)
                      /\ UNCHANGED <<upIdx, putLog, uploadedParts, completeLog>>
                 ELSE /\ uploadedParts' = uploaded
                      /\ IF upIdx < Len(validParts)
                         THEN /\ upc' = "put"
                              /\ upIdx' = upIdx + 1
                              /\ putLog' = Append(putLog, PutFor(ubuf, validParts, upIdx + 1))
                              /\ UNCHANGED <<completeLog, uoutcome>>
                         ELSE IF NeedsComplete(uresp.upload_type, uploaded)
                         THEN /\ upc' = "complete"
                              /\ completeLog' = <<uploaded>>
                              /\ UNCHANGED <<upIdx, putLog, uoutcome>>
                         ELSE /\ upc' = "returned"
                              /\ uoutcome' = UploadDone("pending", 0)
                              /\ UNCHANGED <<upIdx, putLog, completeLog>>
    /\ UNCHANGED <<ubuf, ufile, initiateCalls, uresp, cAttempt, retryVars, fnVars, pollVars, waitVars, batchVars, clientVars>>

\* this.client.completeDirectUpload resolves: processFileBuffer returns
CompleteResolve ==
    /\ upc = "complete"
    /\ upc' = "returned"
    /\ uoutcome' = UploadDone("pending", 0)
    /\ UNCHANGED <<ubuf, ufile, initiateCalls, uresp, upIdx, putLog, putResponses, uploadedParts, completeLog,
                   cAttempt, retryVars, fnVars, pollVars, waitVars, batchVars, clientVars>>

\* this.client.completeDirectUpload rejects: withRetry rethrows, or calls it
\* again with the same list after its sleep
CompleteReject ==
    /\ upc = "complete"
    /\ \E raw \in StatusErrors(Len(completeLog)) :
          IF ShouldRethrow(Intercept(raw), cAttempt, opts)
          THEN /\ upc' = "thrown"
               /\ uoutcome' = UploadDone("complete failed", 0)
               /\ UNCHANGED <<completeLog, cAttempt>>
          ELSE /\ completeLog' = Append(completeLog, uploadedParts)
               /\ cAttempt' = cAttempt + 1
               /\ UNCHANGED <<upc, uoutcome>>
    /\ UNCHANGED <<ubuf, ufile, initiateCalls, uresp, upIdx, putLog, putResponses, uploadedParts, retryVars,
                   fnVars, pollVars, waitVars, batchVars, clientVars>>

NextUpload ==
    \/ ProcessFileBuffer
    \/ InitiateReject
    \/ InitiateResolve
    \/ PutSettles
    \/ CompleteResolve
    \/ CompleteReject

SpecUpload == InitUpload /\ [][NextUpload]_vars

-----------------------------------------------------------------------------
(* OCRService.processBatch: uploads in groups, each awaited with              *)
(* Promise.allSettled.  A file is its position 1..files.length; one upload    *)
(* (uploadFile or uploadFileBuffer) is a promise that fulfils or rejects.     *)

\* most files in a batch
MaxFiles == 6
\* the loop variable is followed down to -IndexFloor
IndexFloor == 4
\* options.concurrency || 5
DefaultConcurrency == 5

\* the concurrency options drawn: absent, 0, positive, negative
Concurrencies == { <<>>, <<0>>, <<1>>, <<2>>, <<3>>, <<-1>>, <<-2>> }

\* const concurrency = options.concurrency || 5
Concurrency(option) == OrDefault(option, DefaultConcurrency)

\* variant: the group is one file longer
BatchSlice_Wide(count, i, concurrency) ==
    LET range == Slice(count, i, i + concurrency + 1)
    IN  { f \in 1..count : range.from < f /\ f <= range.to }

\* files.slice(i, i + concurrency), as the set of files it holds
BatchSlice(count, i, concurrency) ==
    LET range == Slice(count, i, i + concurrency)
    IN  { f \in 1..count : range.from < f /\ f <= range.to }

\* variant: every settled upload is pushed
RECURSIVE Collect_Settled(_, _, _)
Collect_Settled(results, group, state) ==
    IF group = {} THEN results
    ELSE LET f == CHOOSE x \in group : \A y \in group : x <= y
         IN  Collect_Settled(Append(results, f), group \ {f}, state)

\* the fulfilled files of a group appended to results in input order
RECURSIVE Collect(_, _, _)
Collect(results, group, state) ==
    IF group = {} THEN results
    ELSE LET f == CHOOSE x \in group : \A y \in group : x <= y
         IN  Collect(IF state[f] = "fulfilled" THEN Append(results, f) ELSE results,
                     group \ {f}, state)

InitBatch ==
    /\ bfiles \in 0..MaxFiles
    /\ bconc \in Concurrencies
    /\ bi = 0
    /\ bpc = "called"
    /\ bround = 0
    /\ bstate = [f \in 1..bfiles |-> "new"]
    /\ bgroup = [f \in 1..bfiles |-> 0]
    /\ bsubmits = [f \in 1..bfiles |-> 0]
    /\ bresults = <<>>
    /\ boutcome = <<>>
    /\ RetryIdle
    /\ FnIdle
    /\ PollIdle
    /\ WaitIdle
    /\ UploadIdle
    /\ ClientIdle

\* the loop test with i, and one iteration up to its await: the uploads of
\* files.slice(i, i + concurrency) are started; or the return after the loop
LoopFrom(i, results) ==
    IF i < bfiles
    THEN LET batch == BatchSlice(bfiles, i, Concurrency(bconc))
         IN  /\ bpc' = "await"
             /\ bround' = bround + 1
             /\ bstate' = [f \in 1..bfiles |-> IF f \in batch THEN "inflight" ELSE bstate[f]]
             /\ bgroup' = [f \in 1..bfiles |-> IF f \in batch THEN bround + 1 ELSE bgroup[f]]
             /\ bsubmits' = [f \in 1..bfiles |->
                                IF f \in batch THEN bsubmits[f] + 1 ELSE bsubmits[f]]
             /\ boutcome' = boutcome
    ELSE /\ bpc' = "returned"
         /\ boutcome' = <<[jobs |-> results, totalFiles |-> bfiles]>>
         /\ UNCHANGED <<bround, bstate, bgroup, bsubmits>>

\* processBatch is called: the first iteration, or the return for no files
ProcessBatch ==
    /\ bpc = "called"
    /\ bi' = 0
    /\ bresults' = <<>>
    /\ LoopFrom(0, <<>>)
    /\ UNCHANGED <<bfiles, bconc, retryVars, fnVars, pollVars, waitVars, uploadVars, clientVars>>

\* one upload of the group in flight fulfils or rejects
UploadSettles ==
    /\ bpc = "await"
    /\ \E f \in 1..bfiles, result \in {"fulfilled", "rejected"} :
          /\ bstate[f] = "inflight"
          /\ bstate' = [bstate EXCEPT ![f] = result]
    /\ UNCHANGED <<bfiles, bconc, bi, bpc, bround, bgroup, bsubmits, bresults, boutcome,
                   retryVars, fnVars, pollVars, waitVars, uploadVars, clientVars>>

\* Promise.allSettled resolves: the fulfilled values are collected, i += concurrency,
\* and the loop goes on
AllSettled ==
    /\ bpc = "await"
    /\ \A f \in 1..bfiles : bstate[f] # "inflight"
    /\ bi + Concurrency(bconc) >= -IndexFloor
    /\ LET group == { f \in 1..bfiles : bgroup[f] = bround }
           results == Collect(bresults, group, bstate)
       IN  /\ bresults' = results
           /\ bi' = bi + Concurrency(bconc)
           /\ LoopFrom(bi + Concurrency(bconc), results)
    /\ UNCHANGED <<bfiles, bconc, retryVars, fnVars, pollVars, waitVars, uploadVars, clientVars>>

NextBatch ==
    \/ ProcessBatch
    \/ UploadSettles
    \/ AllSettled

SpecBatch == InitBatch /\ [][NextBatch]_vars

-----------------------------------------------------------------------------
(***************************************************************************)
(* LeapOCR clients over the process-wide AXIOS_INSTANCE (SpecClient)       *)
(***************************************************************************)

MaxClients == 3

DEFAULT_BASE_URL == "https://api.leapocr.com/api/v1"
DEFAULT_TIMEOUT == 30000

\* a ?? b on an optional value
Nullish(option, default) == IF option = <<>> THEN default ELSE option[1]

ApiKeys == {"", "key-a", "key-b"}

ClientConfigs ==
    [baseURL : {<<>>, <<"https://staging.example/api/v1">>},
     timeout : {<<>>, <<5000>>}]

\* the failed responses of the server (and the failures without a response)
ResponseErrors ==
    { AxiosErr(st, "", h, 1) :
        st \in {0, 400, 401, 403, 404, 422, 429, 500},
        h \in { <<>>, << <<"2">> >>, << <<"i", "n", "v">> >> } }

\* the rejection handlers of the response interceptors run in the order of
\* their installation, each one on what the one before it rejected with
RECURSIVE RunInterceptors(_, _)
RunInterceptors(error, n) ==
    IF n = 0 THEN error ELSE RunInterceptors(MapError(error), n - 1)

\* customInstance: AXIOS_INSTANCE({...config, ...options}) takes the base URL,
\* the timeout and the X-API-KEY header from the instance's defaults
RequestConfig(defaults, client) == defaults

InitClient ==
    /\ ClientIdle
    /\ RetryIdle
    /\ FnIdle
    /\ PollIdle
    /\ WaitIdle
    /\ UploadIdle
    /\ BatchIdle

\* new LeapOCR(apiKey, config)
Construct ==
    /\ Len(clients) + ctorThrows < MaxClients
    /\ \E apiKey \in ApiKeys, config \in ClientConfigs :
         IF apiKey = ""
         THEN /\ ctorThrows' = ctorThrows + 1
              /\ UNCHANGED <<axDefaults, axInterceptors, clients>>
         ELSE LET this == [apiKey  |-> apiKey,
                           baseURL |-> Nullish(config.baseURL, DEFAULT_BASE_URL),
                           timeout |-> Nullish(config.timeout, DEFAULT_TIMEOUT)]
              IN  /\ clients' = Append(clients, this)
                  /\ axDefaults' = [baseURL |-> this.baseURL,
                                    timeout |-> this.timeout,
                                    apiKey  |-> this.apiKey]
                  /\ axInterceptors' = axInterceptors + 1
                  /\ UNCHANGED ctorThrows
    /\ UNCHANGED <<inflight, observed>>
    /\ UNCHANGED <<retryVars, fnVars, pollVars, waitVars, uploadVars, batchVars>>

\* a request of client c's OCR service goes out through customInstance
Dispatch ==
    /\ inflight = <<>>
    /\ \E c \in 1..Len(clients) :
         LET used == RequestConfig(axDefaults, clients[c])
         IN  inflight' = <<[client |-> c, baseURL |-> used.baseURL,
                            timeout |-> used.timeout, apiKey |-> used.apiKey,
                            chain |-> axInterceptors]>>
    /\ observed' = <<>>
    /\ UNCHANGED <<axDefaults, axInterceptors, clients, ctorThrows>>
    /\ UNCHANGED <<retryVars, fnVars, pollVars, waitVars, uploadVars, batchVars>>

\* the request is answered with a 2xx response
Respond ==
    /\ inflight # <<>>
    /\ observed' = <<[client |-> inflight[1].client, kind |-> "value",
                      raw |-> NoError, error |-> NoError]>>
    /\ inflight' = <<>>
    /\ UNCHANGED <<axDefaults, axInterceptors, clients, ctorThrows>>
    /\ UNCHANGED <<retryVars, fnVars, pollVars, waitVars, uploadVars, batchVars>>

\* the request fails: the AxiosError passes the response interceptors
Fail ==
    /\ inflight # <<>>
    /\ \E raw \in ResponseErrors :
         observed' = <<[client |-> inflight[1].client, kind |-> "error",
                        raw |-> raw,
                        error |-> RunInterceptors(raw, inflight[1].chain)]>>
    /\ inflight' = <<>>
    /\ UNCHANGED <<axDefaults, axInterceptors, clients, ctorThrows>>
    /\ UNCHANGED <<retryVars, fnVars, pollVars, waitVars, uploadVars, batchVars>>

NextClient ==
    \/ Construct
    \/ Dispatch
    \/ Respond
    \/ Fail

SpecClient == InitClient /\ [][NextClient]_vars

-----------------------------------------------------------------------------
(* Properties of withRetry, isRetriableError and getRetryDelay *)

Thrown == rpc = "thrown"

Returned == rpc = "returned"

\* the Retry-After header of `error` is one getRetryDelay can use: present and an integer
UsableRetryAfter(error) ==
    /\ error.hdr # <<>>
    /\ ~ParseInt(error.hdr[1]).nan

\* the failure is one the service reports as temporary: 5xx, 429, 408 or no response
TransientStatus(error) ==
    \/ error.status = 0
    \/ error.status >= 500
    \/ error.status = 429
    \/ error.status = 408

\* C1: when every invocation fails with a retriable error (so the call ends by
\* throwing a retriable error), the operation was invoked exactly maxRetries + 1
\* times and the error thrown is the one raised by the last invocation.
C1_ExhaustedAfterNPlusOne ==
    (Thrown /\ IsRetriableError(outcome[1].error)) =>
        /\ opCalls = opts.maxRetries + 1
        /\ outcome[1].kind = "error"
        /\ outcome[1].error = lastError
        /\ outcome[1].error.id = opCalls

C1_Witness ==
    /\ Thrown
    /\ IsRetriableError(outcome[1].error)
    /\ opts.maxRetries = MaxRetriesBound
    /\ opCalls = MaxRetriesBound + 1
    /\ outcome[1].error.id = opCalls

\* C2: when the first failure is fatal, the operation is invoked exactly once, there
\* is no sleep and no onRetry call, and withRetry rejects with that same error,
\* whatever maxRetries is.
C2_FatalOnce ==
    (lastError.id = 1 /\ ~IsRetriableError(lastError)) =>
        /\ Thrown
        /\ opCalls = 1
        /\ sleeps = 0
        /\ retryLog = <<>>
        /\ outcome = <<[kind |-> "error", error |-> lastError]>>

C2_Witness ==
    /\ Thrown
    /\ lastError.cls = "AxiosError"
    /\ lastError.status = 401
    /\ opts.maxRetries = MaxRetriesBound
    /\ opCalls = 1

\* C3: the operation is invoked at most maxRetries + 1 times, and at least once
\* before withRetry ends; a returned value is the value of the last invocation made
\* (the first success, with no invocation after it); a thrown error is the error of
\* the most recent invocation.
C3_AttemptBounds ==
    /\ opCalls <= opts.maxRetries + 1
    /\ (Returned \/ Thrown) => opCalls >= 1
    /\ Returned => outcome = <<[kind |-> "value", id |-> opCalls]>>
    /\ Thrown => /\ outcome[1].kind = "error"
                 /\ outcome[1].error.id = opCalls
                 /\ outcome[1].error = lastError

C3_Witness ==
    /\ Returned
    /\ opCalls = 3
    /\ outcome[1].id = 3
    /\ lastError.id = 2

C5_TransientRetried ==
    (viaClient /\ rawError.cls = "AxiosError" /\ TransientStatus(rawError)) =>
        /\ IsRetriableError(lastError)
        /\ Thrown => opCalls = opts.maxRetries + 1

\* C6: after a failure whose Retry-After header parses as an integer s, the delay
\* withRetry sleeps is exactly s * 1000 ms, at every attempt and under every policy
\* (Retry-After: 2 gives 2000 ms).
C6_RetryAfterVerbatim ==
    (rpc = "sleep" /\ UsableRetryAfter(lastError)) =>
        /\ delay = <<ParseInt(lastError.hdr[1]).val * 1000>>
        /\ lastError.hdr = << <<"2">> >> => delay = <<2000>>
        /\ lastError.hdr = << <<"1", "2", "0">> >> => delay = <<120000>>

C6_Witness ==
    /\ rpc = "sleep"
    /\ lastError.hdr = << <<"1", "2", "0">> >>
    /\ attempt = 1
    /\ opts.maxDelay = 1000
    /\ delay = <<120000>>

\* C7 (as claimed): a delay that is not a Retry-After value never exceeds maxDelay.
C7_Original ==
    (rpc = "sleep" /\ ~UsableRetryAfter(lastError)) => delay[1] <= opts.maxDelay

\* C7 (amended): a delay that is not a Retry-After value never exceeds maxDelay by
\* more than the 25% jitter: delay <= 1.25 * maxDelay.
C7_Amended ==
    (rpc = "sleep" /\ ~UsableRetryAfter(lastError)) => 4 * delay[1] <= 5 * opts.maxDelay

C7_Witness ==
    /\ rpc = "sleep"
    /\ ~UsableRetryAfter(lastError)
    /\ delay[1] > opts.maxDelay

\* C8: without a usable Retry-After header the delay for attempt index a is an
\* integer in [floor(0.75 b), floor(1.25 b)], b = min(initialDelay * multiplier^a,
\* maxDelay); initialDelay 1000, multiplier 2, a = 1 (with a maxDelay that does not
\* cap the 2000 ms, as the default 30000) gives a delay in [1400, 2600], and a = 10
\* with maxDelay 5000 a delay below 6300.
C8_JitterRange ==
    (fnName = "getRetryDelay" /\ fnRet # <<>>
        /\ ~(fnArgs.error.cls = "AxiosError" /\ UsableRetryAfter(fnArgs.error))) =>
        LET o == fnArgs.options
            a == fnArgs.attempt
            b == Min(o.initialDelay * Pow(o.multiplier, a), o.maxDelay)
        IN  /\ fnRet[1] \in Int
            /\ (3 * b) \div 4 <= fnRet[1]
            /\ fnRet[1] <= (5 * b) \div 4
            /\ (o.initialDelay = 1000 /\ o.multiplier = 2 /\ a = 1 /\ o.maxDelay >= 2000)
                  => (1400 <= fnRet[1] /\ fnRet[1] <= 2600)
            /\ (a = 10 /\ o.maxDelay = 5000) => fnRet[1] < 6300

C8_Witness ==
    /\ fnName = "getRetryDelay"
    /\ fnRet # <<>>
    /\ fnArgs.attempt = 10
    /\ fnArgs.options.maxDelay = 5000
    /\ fnArgs.options.initialDelay = 1000
    /\ fnArgs.options.multiplier = 2
    /\ fnArgs.error.hdr = << <<"i", "n", "v">> >>
    /\ fnRet[1] > 5000

-----------------------------------------------------------------------------
(* Properties of pollUntil *)

\* C9: when the first value the operation returns satisfies the predicate, pollUntil
\* returns that value after exactly one invocation and, with onProgress supplied,
\* exactly one onProgress call, and without sleeping.
C9_FirstValueReturns ==
    (value # <<>> /\ value[1].id = 1 /\ value[1].value \in condition) =>
        /\ ppc = "returned"
        /\ poutcome = <<[kind |-> "value", value |-> value[1].value, id |-> 1]>>
        /\ pollCalls = 1
        /\ pollSleeps = 0
        /\ popts.onProgress => progressLog = value

C9_Witness ==
    /\ ppc = "returned"
    /\ pollCalls = 1
    /\ Len(progressLog) = 1
    /\ now >= popts.maxWait

\* C10 (as claimed): with pollInterval 100 and maxWait 500 the timeout error comes
\* after at least 2 and at most 5 invocations, with at least 500 ms elapsed.
C10_Original ==
    (popts.pollInterval = 100 /\ popts.maxWait = 500
        /\ ppc = "thrown" /\ poutcome[1].kind = "timeout") =>
        /\ 2 <= pollCalls
        /\ pollCalls <= 5
        /\ now >= 500

\* C10 (amended): with pollInterval 100 and maxWait 500 the operation is invoked at
\* most 6 times, and the timeout error comes after at least 1 and at most 6
\* invocations, with at least 500 ms elapsed.
C10_Amended ==
    (ppc # "idle" /\ popts.pollInterval = 100 /\ popts.maxWait = 500) =>
        /\ pollCalls <= 6
        /\ (ppc = "thrown" /\ poutcome[1].kind = "timeout") =>
              /\ 1 <= pollCalls
              /\ now >= 500

C10_Witness ==
    /\ popts.pollInterval = 100
    /\ popts.maxWait = 500
    /\ ppc = "thrown"
    /\ poutcome[1].kind = "timeout"
    /\ pollCalls = 6
    /\ now = 500

-----------------------------------------------------------------------------
(* Properties of pollUntil: cancellation and the deadline *)

PollRejected == ppc = "thrown" /\ poutcome # <<>>

\* C11: a signal found aborted at the top of an iteration makes pollUntil reject
\* with the cancellation error without invoking the operation again: from a state
\* at the top of the loop with the signal aborted the only step is the rejection,
\* and it leaves the invocation count alone; whenever pollUntil has rejected with
\* the cancellation error, the operation has been invoked exactly as often as it
\* had been when the signal aborted (0 times for a signal aborted before the call,
\* 2 times for an abort during the sleep that follows the second invocation).
C11_CancelWithoutInvoking ==
    /\ [](PollRejected /\ poutcome[1].kind = "cancelled"
            => /\ abortInfo # <<>>
               /\ pollCalls = abortInfo[1].calls)
    /\ [][(ppc = "top" /\ popts.signal /\ aborted)
            => /\ ppc' = "thrown"
               /\ poutcome' # <<>> /\ poutcome'[1].kind = "cancelled"
               /\ pollCalls' = pollCalls]_vars

\* pollInterval 100, invocations at 0 and 100 ms, abort during the sleep that ends
\* at 200 ms: rejected with the cancellation error after exactly 2 invocations
C11_Witness ==
    /\ PollRejected /\ poutcome[1].kind = "cancelled"
    /\ popts.pollInterval = 100
    /\ abortInfo = <<[calls |-> 2, at |-> "sleep"]>>
    /\ callAt = 100 /\ now = 200
    /\ pollCalls = 2

\* the latency of the operation() call in flight when pollUntil rejected, 0 if none
RejectLatency == IF poutcome[1].kind = "cancelled" THEN 0 ELSE now - callAt

\* how late the timer before the last look at the signal fired, 0 if there was none
RejectLateness ==
    IF pollSleeps = 0 THEN 0
    ELSE IF poutcome[1].kind = "cancelled" THEN now - wakeAt
    ELSE callAt - wakeAt

\* C13 as stated: a rejection comes no later than maxWait plus the latency of one
\* operation invocation.  A timer that fires late refutes it.
C13_Original == PollRejected => now <= popts.maxWait + RejectLatency

\* C13 (amended): pollUntil rejects no later than maxWait plus the latency of the
\* one operation invocation in flight plus the lateness of the one timer before it.
C13_Amended == PollRejected => now <= popts.maxWait + RejectLatency + RejectLateness

\* a timeout whose last invocation started after maxWait because the timer fired
\* late, and took time
C13_Witness ==
    /\ PollRejected /\ poutcome[1].kind = "timeout"
    /\ pollCalls >= 2
    /\ callAt > popts.maxWait
    /\ now > callAt
    /\ now = popts.maxWait + RejectLatency + RejectLateness

-----------------------------------------------------------------------------
(* Properties of OCRService.waitUntilDone *)

C14_FetchErrorsUnchanged ==
    woutcome # <<>> =>
        /\ woutcome[1].kind = "TimeoutError"
              => /\ poutcome[1].kind = "timeout"
                 /\ now >= popts.maxWait
                 /\ value[1].value \notin TerminalStatuses
        /\ poutcome[1].kind = "operation"
              => woutcome = <<WaitError(lastError, errMessage)>>

-----------------------------------------------------------------------------
(* Properties of the presigned upload *)

\* the descriptors of the initiate response, <<>> when it has none
Descriptors == IF uresp = <<>> \/ uresp.parts = <<>> THEN <<>> ELSE uresp.parts[1]

\* every descriptor has both fields and the part numbers are exactly 1..n
NumberedOneToN ==
    /\ Len(Descriptors) >= 1
    /\ \A i \in 1..Len(Descriptors) : ValidPart(Descriptors[i])
    /\ { Descriptors[i].part_number[1] : i \in 1..Len(Descriptors) } = 1..Len(Descriptors)

\* the bytes of the buffer with index in [from, to)
BytesOf(from, to) == { b \in 0..(ubuf - 1) : from <= b /\ b < to }

QuoteFree(etag) == \A i \in 1..Len(etag) : etag[i] # Quote

\* uploadParts has returned its list
PartsUploaded ==
    \/ upc \in {"complete", "returned"}
    \/ upc = "thrown" /\ uoutcome[1].kind = "complete failed"

\* C15: for a buffer of length L and descriptors numbered 1..n, the PUT of part k
\* carries exactly the bytes [(k-1)*c, min(k*c, L)) with c = ceil(L/n); when the
\* descriptors come in the order 1..n, a successful upload yields n entries in
\* ascending part-number order with quote-free identifiers.
C15_ChunkRanges ==
    (upc # "idle" /\ uresp.job_id /\ NumberedOneToN) =>
        LET n == Len(Descriptors)
            c == IF ubuf % n = 0 THEN ubuf \div n ELSE (ubuf \div n) + 1
        IN  /\ \A i \in 1..Len(putLog) :
                  LET k == putLog[i].part_number
                      upper == IF k * c <= ubuf THEN k * c ELSE ubuf
                  IN  BytesOf(putLog[i].from, putLog[i].to) = BytesOf((k - 1) * c, upper)
            /\ (PartsUploaded /\ \A i \in 1..n : Descriptors[i].part_number = <<i>>)
                  => /\ Len(uploadedParts) = n
                     /\ \A i \in 1..n : /\ uploadedParts[i].part_number = i
                                        /\ QuoteFree(uploadedParts[i].etag)

\* L = 300, n = 3: the PUTs carry [0,100), [100,200), [200,300) and the upload
\* returns 3 entries, one of them from a quoted ETag
C15_Witness ==
    /\ upc = "returned"
    /\ ubuf = 300
    /\ NumberedOneToN /\ Len(Descriptors) = 3
    /\ \A i \in 1..3 : Descriptors[i].part_number = <<i>>
    /\ Len(putLog) = 3
    /\ \A i \in 1..3 : putLog[i].from = (i - 1) * 100 /\ putLog[i].to = i * 100
    /\ Len(uploadedParts) = 3
    /\ \E i \in 1..3 : putResponses[i].etag = << <<Quote, "a", Quote>> >>
    /\ \A i \in 1..3 : uploadedParts[i].etag = <<"a">>

\* C16: on success uploadParts returns exactly one entry per input descriptor,
\* ordered by ascending part number whatever the order of the input, each with a
\* quote-free identifier.
C16_OnePerDescriptorAscending ==
    PartsUploaded =>
        /\ Len(uploadedParts) = Len(Descriptors)
        /\ \A i, j \in 1..Len(uploadedParts) :
              i < j => uploadedParts[i].part_number < uploadedParts[j].part_number
        /\ \A i \in 1..Len(uploadedParts) : QuoteFree(uploadedParts[i].etag)

\* C17 as stated: one descriptor never leads to the complete-upload call, two or
\* more always do, with all parts.
C17_Original ==
    PartsUploaded =>
        /\ Len(Descriptors) = 1 => completeLog = <<>>
        /\ Len(Descriptors) >= 2
              => /\ completeLog # <<>>
                 /\ \A i \in 1..Len(completeLog) : Len(completeLog[i]) = Len(Descriptors)

\* C17 (amended): once the parts are uploaded, the complete-upload call is made
\* exactly when the server's upload-type flag is "multipart", whatever the number
\* of descriptors, and every such call carries all the uploaded parts.
C17_Amended ==
    PartsUploaded =>
        /\ completeLog # <<>> <=> uresp.upload_type = "multipart"
        /\ \A i \in 1..Len(completeLog) : completeLog[i] = uploadedParts

\* a single descriptor with the flag "multipart": the completion call is made
C17_Witness ==
    /\ upc = "returned"
    /\ Len(Descriptors) = 1
    /\ uresp.upload_type = "multipart"
    /\ Len(completeLog) = 1
    /\ Len(completeLog[1]) = 1

BadPutResponse(response) ==
    /\ response.kind = "response"
    /\ \/ ~response.ok
       \/ response.etag = <<>>
       \/ response.etag = << <<>> >>

\* C19: a PUT answered with a non-success status or without an ETag ends the
\* upload at once: it is the last response, no PUT was issued after it, its URL
\* got no second PUT, the completion call is never made, and the upload rejects.
C19_PutFailureEndsUpload ==
    \A i \in 1..Len(putResponses) :
        BadPutResponse(putResponses[i])
            => /\ i = Len(putResponses)
               /\ Len(putLog) = i
               /\ \A j \in 1..Len(putLog) : j # i => putLog[j].url # putLog[i].url
               /\ completeLog = <<>>
               /\ upc = "thrown"

\* three valid parts, the second PUT answered 200 without an ETag: the third PUT
\* is never issued
C19_Witness ==
    /\ upc = "thrown"
    /\ Len(Filter(Descriptors)) = 3
    /\ Len(putResponses) = 2
    /\ putResponses[2].ok /\ putResponses[2].etag = <<>>
    /\ Len(putLog) = 2
    /\ uresp.upload_type = "multipart"

-----------------------------------------------------------------------------
(* Properties of OCRService.processBatch *)

InFlight == { f \in 1..bfiles : bstate[f] = "inflight" }

\* the limit in force: the concurrency option, 5 when it is absent or 0
BatchLimit == IF bconc = <<>> \/ bconc[1] = 0 THEN 5 ELSE bconc[1]

\* C20: with a positive limit, processBatch never has more than `concurrency`
\* uploads in flight; the files are taken in consecutive groups of that size in
\* input order (file f belongs to group ceil(f / concurrency)); and when an upload
\* of a group has started, every upload of every earlier group has settled.
C20_GroupsOfConcurrency ==
    (bpc # "idle" /\ BatchLimit >= 1) =>
        /\ Cardinality(InFlight) <= BatchLimit
        /\ \A f \in 1..bfiles :
              bgroup[f] # 0 => bgroup[f] = ((f - 1) \div BatchLimit) + 1
        /\ \A f, g \in 1..bfiles :
              (f < g /\ bgroup[g] # 0 /\ ((f - 1) \div BatchLimit) < ((g - 1) \div BatchLimit))
                  => bstate[f] \in {"fulfilled", "rejected"}

\* 6 files, concurrency 2: the second group is in flight, the first has settled
\* with one rejection, the third has not started
C20_Witness ==
    /\ bfiles = 6 /\ bconc = <<2>>
    /\ InFlight = {3, 4}
    /\ bstate[1] = "rejected" /\ bstate[2] = "fulfilled"
    /\ bstate[5] = "new" /\ bstate[6] = "new"

\* the files whose upload fulfilled, in input order
RECURSIVE FulfilledUpTo(_)
FulfilledUpTo(n) ==
    IF n = 0 THEN <<>>
    ELSE IF bstate[n] = "fulfilled" THEN Append(FulfilledUpTo(n - 1), n)
    ELSE FulfilledUpTo(n - 1)

\* C21: a failed item aborts neither its siblings nor the following groups: no
\* file's upload is ever started twice and processBatch has no rejecting exit;
\* when it returns, every file has been submitted exactly once and has settled,
\* jobs holds exactly the fulfilled uploads in input order, and totalFiles is
\* the number of input files.
C21_FailuresIsolated ==
    bpc # "idle" =>
        /\ bpc \in {"called", "await", "returned"}
        /\ \A f \in 1..bfiles : bsubmits[f] <= 1
        /\ bpc = "returned"
              => /\ \A f \in 1..bfiles : /\ bsubmits[f] = 1
                                         /\ bstate[f] \in {"fulfilled", "rejected"}
                 /\ boutcome = <<[jobs |-> FulfilledUpTo(bfiles), totalFiles |-> bfiles]>>

\* 6 files in groups of 2, a rejection in the first and in the second group:
\* the later uploads were still made and jobs lists the four that fulfilled
C21_Witness ==
    /\ bpc = "returned"
    /\ bfiles = 6 /\ bconc = <<2>>
    /\ bstate = <<"rejected", "fulfilled", "fulfilled", "rejected", "fulfilled", "fulfilled">>
    /\ boutcome = <<[jobs |-> <<2, 3, 5, 6>>, totalFiles |-> 6]>>

------------------------------------------------------------------------------
(***************************************************************************)
(* Properties of the LeapOCR client and the shared transport               *)
(***************************************************************************)

\* C22 (as stated): the configuration a client's request goes out with is
\* the one that client wrote at its construction, whatever was constructed
\* since.  Violated: the second constructor overwrites the shared defaults.
C22_RequestUsesOwnConfiguration ==
    inflight # <<>> =>
        LET own == clients[inflight[1].client]
        IN  /\ inflight[1].baseURL = own.baseURL
            /\ inflight[1].timeout = own.timeout
            /\ inflight[1].apiKey = own.apiKey
            /\ inflight[1].chain = 1

\* the error kind and status code that the status of a failed response fixes
KindOf(status) ==
    IF status = 0 THEN "NetworkError"
    ELSE IF status = 401 THEN "AuthenticationError"
    ELSE IF status = 403 THEN "AuthorizationError"
    ELSE IF status = 429 THEN "RateLimitError"
    ELSE IF status \in {400, 422} THEN "ValidationError"
    ELSE "APIError"

\* C23 (as stated): the error a caller observes for a failed response has
\* the kind fixed by the response's status, however many clients exist.
\* Violated: with two clients the second interceptor maps the first one's
\* SDK error, which carries no response, to a NetworkError.
C23_KindFixedByStatus ==
    (observed # <<>> /\ observed[1].kind = "error") =>
        /\ observed[1].error.cls = KindOf(observed[1].raw.status)
        /\ observed[1].raw.status \notin {0, 400, 401, 403, 422, 429}
              => observed[1].error.statusCode = observed[1].raw.status

------------------------------------------------------------------------------
(***************************************************************************)
(* Properties of mapJobStatus                                              *)
(***************************************************************************)

Mapped == fnName = "mapJobStatus" /\ fnRet # <<>>

JobStatusTypes == {"pending", "processing", "completed", "failed"}

\* C24 (as stated): every JobStatus the mapper produces has a status of the
\* closed enumeration, whatever the raw payload.  Violated: a status string
\* outside the enumeration is copied into the JobStatus.
C24_StatusInEnumeration ==
    Mapped => fnRet[1].status \in JobStatusTypes

\* C25: a payload without status maps to pending, the error payload is the
\* payload's own (absent when it has none), and progress is the payload's
\* own: absent when the payload has none, never a number put in its place.
C25_MapperDefaults ==
    Mapped =>
        /\ fnArgs.data.status = <<>> => fnRet[1].status = "pending"
        /\ fnRet[1].error = fnArgs.data.error
        /\ fnRet[1].progress = fnArgs.data.progress
        /\ fnArgs.data.progress = <<>> => fnRet[1].progress = <<>>

C25_Witness ==
    /\ Mapped
    /\ fnArgs.data.status = <<>>
    /\ fnArgs.data.progress = <<>>
    /\ fnArgs.data.error = <<[code |-> "OCR_FAILED", message |-> "unreadable"]>>
    /\ fnRet[1].status = "pending"
    /\ fnRet[1].progress = <<>>
    /\ fnRet[1].error = <<[code |-> "OCR_FAILED", message |-> "unreadable"]>>

------------------------------------------------------------------------------
(***************************************************************************)
(* Properties of the local validation                                      *)
(***************************************************************************)

\* the buffer is larger than the maximum or its file name's extension is
\* not a supported one
LocallyInvalid ==
    \/ ubuf > 104857600
    \/ ufile \notin {".pdf", ".PDF"}

\* C26: a call whose buffer fails the local validation rejects with a
\* FileError, and no initiate, PUT or complete request is ever issued.
C26_InvalidNeverReachesNetwork ==
    (upc \notin {"idle", "called"} /\ LocallyInvalid) =>
        /\ upc = "thrown"
        /\ uoutcome = UploadDone("FileError", 0)
        /\ initiateCalls = 0
        /\ putLog = <<>>
        /\ completeLog = <<>>

C26_Witness ==
    /\ upc = "thrown"
    /\ ubuf = 300
    /\ ufile = ".txt"
    /\ uoutcome = UploadDone("FileError", 0)
    /\ initiateCalls = 0

------------------------------------------------------------------------------
(***************************************************************************)
(* Properties of withRetry: classification corner cases and onRetry        *)
(***************************************************************************)

\* the catch block has just handled the error of the latest invocation
Caught == rpc \in {"sleep", "thrown"} /\ lastError.id = opCalls

\* an AxiosError with a 4xx status other than 408 and 429
ClientErrorStatus(error) ==
    /\ error.cls = "AxiosError"
    /\ error.status >= 400
    /\ error.status < 500
    /\ error.status \notin {408, 429}

ConnectionCodes == {"ECONNABORTED", "ETIMEDOUT"}

C28_NonAxiosNeverRetried ==
    (lastError.cls \notin {"AxiosError", "undefined"}) =>
        /\ rpc = "thrown"
        /\ outcome = <<[kind |-> "error", error |-> lastError]>>
        /\ lastError.id = opCalls
        /\ sleeps = opCalls - 1
        /\ lastError.id = 1 => (opCalls = 1 /\ sleeps = 0 /\ retryLog = <<>>)

C28_Witness ==
    /\ rpc = "thrown"
    /\ ~viaClient
    /\ lastError = PlainErr(1)
    /\ opts.maxRetries = MaxRetriesBound
    /\ opCalls = 1
    /\ sleeps = 0

\* the delays getRetryDelay can return for the same attempt and policy when
\* the error has no Retry-After header
DelaysWithoutHeader ==
    { (b * (3 * JitterSteps + 2 * k)) \div (4 * JitterSteps) :
        b \in { IF fnArgs.options.initialDelay
                     * Pow(fnArgs.options.multiplier, fnArgs.attempt)
                   <= fnArgs.options.maxDelay
                THEN fnArgs.options.initialDelay
                       * Pow(fnArgs.options.multiplier, fnArgs.attempt)
                ELSE fnArgs.options.maxDelay },
        k \in 0..(JitterSteps - 1) }

\* C29: a Retry-After header whose value parseInt reads as NaN is ignored:
\* the delay is one of the jittered backoff delays of the header-less case.
C29_UnparsableHeaderIgnored ==
    (fnName = "getRetryDelay" /\ fnRet # <<>>
        /\ fnArgs.error.cls = "AxiosError"
        /\ fnArgs.error.hdr # <<>>
        /\ ParseInt(fnArgs.error.hdr[1]).nan) =>
        fnRet[1] \in DelaysWithoutHeader

C29_Witness ==
    /\ fnName = "getRetryDelay"
    /\ fnArgs.error.hdr = << <<"W", "e", "d", ",">> >>
    /\ fnArgs.attempt = 1
    /\ fnArgs.options.initialDelay = 1000
    /\ fnArgs.options.multiplier = 2
    /\ fnArgs.options.maxDelay = 30000
    /\ fnRet = <<1500>>

\* C30: with onRetry supplied, its i-th call comes after the i-th invocation
\* has failed and before the i-th sleep starts, with the number i and that
\* invocation's error; an invocation starts only when every sleep begun has
\* ended; and once the operation is running or withRetry has ended, the calls
\* of onRetry number one less than the invocations.
C30_OnRetryBetweenAttempts ==
    rpc # "idle" =>
        /\ ~opts.onRetry => retryLog = <<>>
        /\ \A i \in 1..Len(retryLog) :
              retryLog[i] = [attempt |-> i, errId |-> i, atCalls |-> i, atSleeps |-> i - 1]
        /\ opts.onRetry =>
              /\ rpc \in {"await", "returned", "thrown"} => Len(retryLog) = opCalls - 1
              /\ rpc \in {"sleep", "loop"} => Len(retryLog) = opCalls
        /\ rpc = "sleep" => sleeps = opCalls
        /\ rpc = "await" => (sleeps = opCalls - 1 /\ attempt = opCalls - 1)

C30_Witness ==
    /\ rpc = "thrown"
    /\ opts.onRetry
    /\ opCalls = MaxRetriesBound + 1
    /\ Len(retryLog) = MaxRetriesBound
    /\ retryLog[MaxRetriesBound].attempt = MaxRetriesBound
    /\ sleeps = MaxRetriesBound

------------------------------------------------------------------------------
(***************************************************************************)
(* Properties of pollUntil: short deadlines, progress reports, ordering    *)
(***************************************************************************)

PollTimedOut == ppc = "thrown" /\ poutcome # <<>> /\ poutcome[1].kind = "timeout"

\* the deadline is shorter than one poll interval and the predicate never holds
ShortDeadline == ppc # "idle" /\ popts.maxWait < popts.pollInterval /\ condition = {}

\* C31 (as stated): with maxWait below pollInterval and a predicate that never
\* succeeds, the timeout error comes after exactly one invocation.  Violated:
\* a first call that ends before maxWait is followed by a sleep cut to the
\* time left and by a second call.
C31_Original ==
    (ShortDeadline /\ PollTimedOut) => pollCalls = 1

\* C31 (amended): with maxWait below pollInterval and a predicate that never
\* succeeds, at most two invocations are made; the timeout error comes after
\* one invocation when that call ended at or after maxWait, and otherwise
\* after a single sleep and a second invocation that started at or after
\* maxWait.
C31_Amended ==
    ShortDeadline =>
        /\ pollCalls <= 2
        /\ pollSleeps <= 1
        /\ PollTimedOut =>
              /\ pollCalls \in {1, 2}
              /\ now >= popts.maxWait
              /\ pollCalls = 1 => (pollSleeps = 0 /\ callAt = 0)
              /\ pollCalls = 2 => (pollSleeps = 1 /\ callAt >= popts.maxWait)
        /\ (ppc = "sleep" /\ pollCalls = 1) => (now < popts.maxWait /\ wakeAt = popts.maxWait)

C31_Witness ==
    /\ ShortDeadline
    /\ PollTimedOut
    /\ popts.pollInterval = 1000
    /\ popts.maxWait = 500
    /\ pollCalls = 2
    /\ pollSleeps = 1
    /\ callAt = 500

\* the invocations of the operation that have returned a value
ValuesReturned ==
    IF ppc = "await" \/ (ppc = "thrown" /\ poutcome[1].kind = "operation")
    THEN pollCalls - 1
    ELSE pollCalls

\* C32: with onProgress supplied, its i-th call carries the value of the i-th
\* invocation, so every value is reported once and in the order observed;
\* the calls number the invocations that returned a value; the value last
\* observed is the one last reported, and a returned value has been reported.
C32_EveryValueReported ==
    (ppc # "idle" /\ popts.onProgress /\ rpc = "idle") =>
        /\ \A i \in 1..Len(progressLog) : progressLog[i].id = i
        /\ Len(progressLog) = ValuesReturned
        /\ value # <<>> => progressLog[Len(progressLog)] = value[1]
        /\ ppc = "returned" =>
              /\ progressLog[Len(progressLog)].value = poutcome[1].value
              /\ progressLog[Len(progressLog)].id = poutcome[1].id
              /\ poutcome[1].id = pollCalls

C32_Witness ==
    /\ ppc = "returned"
    /\ popts.onProgress
    /\ pollCalls = 3
    /\ progressLog = <<[value |-> "pending", id |-> 1], [value |-> "pending", id |-> 2],
                       [value |-> "completed", id |-> 3]>>

\* C33: an invocation starts only from the top of the loop, where none is in
\* flight; every invocation after the first starts when the one before has
\* returned a value that was reported and did not satisfy the predicate, and
\* the sleep begun after it has ended.
C33_OneInvocationAtATime ==
    [][pollCalls' # pollCalls =>
          /\ pollCalls' = pollCalls + 1
          /\ ppc = "top"
          /\ ppc' = "await"
          /\ pollCalls >= 1 =>
                /\ value # <<>>
                /\ value[1].id = pollCalls
                /\ value[1].value \notin condition
                /\ popts.onProgress => Len(progressLog) = pollCalls
                /\ pollSleeps = pollCalls
                /\ now >= wakeAt]_vars

C33_Witness ==
    /\ ppc = "await"
    /\ pollCalls = 3
    /\ pollSleeps = 2
    /\ value # <<>>
    /\ value[1].id = 2
    /\ now >= wakeAt

\* C34: when the operation rejects, pollUntil rejects with the error of that
\* invocation, which is the last one made; neither onProgress nor the
\* predicate has seen a value of it.
C34_OperationErrorPropagates ==
    (ppc = "thrown" /\ poutcome[1].kind = "operation" /\ rpc = "idle") =>
        /\ poutcome = <<[kind |-> "operation", id |-> pollCalls]>>
        /\ value # <<>> => value[1].id = pollCalls - 1
        /\ value = <<>> => pollCalls = 1
        /\ \A i \in 1..Len(progressLog) : progressLog[i].id < pollCalls
        /\ pollSleeps = pollCalls - 1

C34_Witness ==
    /\ ppc = "thrown"
    /\ poutcome = <<[kind |-> "operation", id |-> 2]>>
    /\ pollCalls = 2
    /\ popts.onProgress
    /\ Len(progressLog) = 1

------------------------------------------------------------------------------
(***************************************************************************)
(* Properties of OCRService.waitUntilDone: the terminal status             *)
(***************************************************************************)

\* C35: waitUntilDone returns a status only when it is completed or failed;
\* whenever the status last observed is completed or failed, waitUntilDone
\* has returned it as a value (a failed one too, never an error), it is the
\* status of the last poll made, and the request that brought it is the last
\* request issued.
C35_ReturnsFirstTerminalStatus ==
    wopts # <<>> =>
        /\ (woutcome # <<>> /\ woutcome[1].kind = "value") =>
              /\ woutcome[1].status \in {"completed", "failed"}
              /\ value = <<[value |-> woutcome[1].status, id |-> woutcome[1].id]>>
        /\ (value # <<>> /\ value[1].value \in {"completed", "failed"}) =>
              /\ ppc = "returned"
              /\ woutcome = <<WaitValue(value[1].value, pollCalls)>>
              /\ value[1].id = pollCalls
              /\ outcome = <<[kind |-> "value", id |-> opCalls]>>
        /\ (value # <<>> /\ ppc # "returned") =>
              value[1].value \in {"pending", "processing", "partially_done"}

C35_Witness ==
    /\ ppc = "returned"
    /\ woutcome = <<WaitValue("failed", 3)>>
    /\ pollCalls = 3
    /\ opCalls = 3
    /\ now >= popts.maxWait

\* waitUntilDone has settled
WaitDone == woutcome # <<>>

\* C39: waitUntilDone always ends, whatever the server answers: no loop
\* iteration is left waiting (the number of polls stays below the number
\* followed), the call settles in every fair run, and it settles by returning
\* a terminal status, by TimeoutError, or by the error pollUntil rejected
\* with: the cancellation error or an error of the status fetch.
C39_WaitTerminates ==
    /\ [](ppc = "top" => pollCalls < MaxPolls)
    /\ <>WaitDone
    /\ [](WaitDone =>
            /\ ppc \in {"returned", "thrown"}
            /\ \/ woutcome[1].kind = "value" /\ woutcome[1].status \in TerminalStatuses
               \/ woutcome[1].kind = "TimeoutError"
               \/ /\ woutcome[1].kind = "error"
                  /\ poutcome[1].kind \in {"cancelled", "operation"})

\* the server answers with statuses that are not terminal until the deadline
C39_Witness ==
    /\ WaitDone
    /\ woutcome[1].kind = "TimeoutError"
    /\ popts.pollInterval = 200
    /\ popts.maxWait = 1000
    /\ pollCalls = 6
    /\ value[1].value = "partially_done"

------------------------------------------------------------------------------
(***************************************************************************)
(* Properties of pollUntil: an abort during an invocation                  *)
(***************************************************************************)

\* the signal was aborted while the invocation that brought the value last
\* observed was in flight
AbortedInFlight ==
    /\ ppc # "idle" /\ rpc = "idle"
    /\ aborted
    /\ abortInfo # <<>> /\ abortInfo[1].at = "await"
    /\ value # <<>> /\ value[1].id = abortInfo[1].calls

\* C38: the abort of the signal during an invocation does not change what
\* pollUntil does with the value of that invocation: a value satisfying the
\* predicate is returned; one that does not, with the deadline passed, gives
\* the timeout error; the cancellation error comes only after the sleep that
\* follows a value before the deadline, and no invocation is made after it.
C38_AbortSeenAtTopOnly ==
    AbortedInFlight =>
        /\ pollCalls = abortInfo[1].calls
        /\ value[1].value \in condition =>
              /\ ppc = "returned"
              /\ poutcome = <<[kind |-> "value", value |-> value[1].value,
                               id |-> value[1].id]>>
        /\ (value[1].value \notin condition /\ pollSleeps < pollCalls) =>
              /\ ppc = "thrown"
              /\ poutcome = <<[kind |-> "timeout", maxWait |-> popts.maxWait]>>
              /\ now >= popts.maxWait
        /\ (value[1].value \notin condition /\ pollSleeps = pollCalls) =>
              /\ ppc \in {"sleep", "top", "thrown"}
              /\ ppc = "sleep" => now < popts.maxWait
              /\ ppc = "thrown" => poutcome[1].kind = "cancelled"

\* aborted during a call that ended after the deadline with a satisfying value
C38_Witness ==
    /\ AbortedInFlight
    /\ ppc = "returned"
    /\ now >= popts.maxWait
    /\ pollCalls = 2

------------------------------------------------------------------------------
(***************************************************************************)
(* Properties of the presigned upload: PUTs and the completion call        *)
(***************************************************************************)

\* the PUTs sent to the target URL of descriptor i of the response
PutsTo(i) == { j \in 1..Len(putLog) : <<putLog[j].url>> = Descriptors[i].upload_url }

\* C36: in a successful upload the PUTs were issued one at a time, the target
\* URL of each descriptor of the response received exactly one PUT, and when
\* the completion call is made every PUT has succeeded and the call carries
\* one part entry per descriptor.
C36_OnePutPerDescriptor ==
    upc = "returned" /\ uoutcome = UploadDone("pending", 0) /\ putLog # <<>> =>
        /\ Len(putLog) = Len(putResponses)
        /\ \A i \in 1..Len(Descriptors) :
              Descriptors[i].upload_url # <<>> => Cardinality(PutsTo(i)) = 1
        /\ \A c \in 1..Len(completeLog) :
              /\ \A j \in 1..Len(putResponses) : ~BadPutResponse(putResponses[j])
              /\ completeLog[c] = uploadedParts
              /\ Len(completeLog[c]) = Len(Descriptors)

-----------------------------------------------------------------------------
(* Properties of the presigned upload: the chunks of the buffer *)

\* the PUTs that carry byte b
PutsCarrying(b) == { i \in 1..Len(putLog) : putLog[i].from <= b /\ b < putLog[i].to }

\* the chunks lie in the buffer, in part-number order each begins where the
\* one before ends, the first at 0 and the last ending at L: their
\* concatenation is the buffer and every byte is in exactly one chunk
ChunksTileBuffer ==
    /\ \A i \in 1..Len(putLog) :
          /\ 0 <= putLog[i].from
          /\ putLog[i].from <= putLog[i].to
          /\ putLog[i].to <= ubuf
    /\ \A i, j \in 1..Len(putLog) :
          putLog[j].part_number = putLog[i].part_number + 1 => putLog[j].from = putLog[i].to
    /\ \A i \in 1..Len(putLog) :
          /\ putLog[i].part_number = 1 => putLog[i].from = 0
          /\ putLog[i].part_number = Len(putLog) => putLog[i].to = ubuf
    /\ \A b \in 0..(ubuf - 1) : Cardinality(PutsCarrying(b)) = 1

\* start <= end <= L for the start and end uploadParts computes for each part
BoundsOrdered ==
    \A i \in 1..Len(putLog) :
        LET bounds == ChunkBounds(ubuf, Len(Descriptors), putLog[i].part_number)
        IN  bounds.start <= bounds.end /\ bounds.end <= ubuf

\* every PUT of the upload has been issued, for descriptors numbered 1..n
AllChunksSent == PartsUploaded /\ uresp.job_id /\ NumberedOneToN

\* C37 as stated: for descriptors numbered exactly 1..n the chunks sent are
\* pairwise disjoint and cover every byte of the buffer exactly once, with
\* start <= end <= L for every part.
C37_Original == AllChunksSent => ChunksTileBuffer /\ BoundsOrdered

\* C37 amended: for descriptors numbered exactly 1..n the chunks sent are
\* pairwise disjoint, lie in the buffer and concatenated in part-number order
\* equal the buffer; end <= L for every part, and start <= end for every part
\* whose start is within the buffer (a part with start > L sends no byte).
C37_Amended ==
    AllChunksSent =>
        /\ ChunksTileBuffer
        /\ \A i \in 1..Len(putLog) :
              LET bounds == ChunkBounds(ubuf, Len(Descriptors), putLog[i].part_number)
              IN  /\ bounds.end <= ubuf
                  /\ bounds.start <= ubuf => bounds.start <= bounds.end
                  /\ bounds.start > ubuf => putLog[i].from = putLog[i].to

\* L = 5, n = 3: the upload has sent chunks of 2, 2 and 1 bytes
C37_Witness ==
    /\ AllChunksSent
    /\ upc = "returned"
    /\ ubuf = 5
    /\ Len(Descriptors) = 3
    /\ \E i \in 1..3 : putLog[i].part_number = 3 /\ putLog[i].from = 4 /\ putLog[i].to = 5
    /\ \E i \in 1..3 : putLog[i].part_number = 1 /\ putLog[i].from = 0 /\ putLog[i].to = 2

-----------------------------------------------------------------------------
(* Properties of processBatch: termination *)

\* C40: processBatch terminates for every file list and every value of the
\* concurrency option, 0 and negative values included: every iteration of its
\* loop moves the index i towards files.length, so i never falls below 0 and
\* the loop body runs at most files.length times before the return.
C40_LoopBounded ==
    /\ bi >= 0
    /\ bround <= bfiles

====
